---- MODULE Spec2Model ----
(***************************************************************************)
(* Model of findDuplicates: the file comparator (compare_two_files and the *)
(* two md5 helpers), the directory scanner (ScanDirectory.scan) and the    *)
(* duplicate matcher (do_compare).                                         *)
(*                                                                         *)
(* Four specifications share the variables below:                          *)
(*   SpecCompare  one call of compare_two_files, step by step;             *)
(*   SpecScan     one ScanDirectory object scanning a tree, file by file;  *)
(*   SpecRescan   one ScanDirectory object scanned repeatedly, each scan   *)
(*                taken as one step;                                       *)
(*   Spec         two scans followed by one run of do_compare.             *)
(* A specification leaves the variables it does not use untouched.         *)
(***************************************************************************)
EXTENDS Integers, Sequences, FiniteSets, TLC

VARIABLES
    \* ---- compare_two_files (one call) ----
    file_a,         \* what the path file_a names: [kind, content]
    file_b,         \* what the path file_b names
    single_pass,    \* the single_pass argument
    cmp_pc,         \* position in compare_two_files
    cmp_result,     \* the value returned ("none" until it returns)
    hash_calls,     \* the md5 helpers called so far, in order
    cmp_errors,     \* lib.display_error calls: the argument (a or b) named
    \* ---- ScanDirectory.scan (one object) ----
    scan_obj,       \* the ScanDirectory object: its parameters, items, file_count
    scan_pc,        \* position in scan(): "new", "walking", "done", "raised"
    checked_counter,\* scan()'s local counter of files examined
    actual_counter, \* scan()'s local counter of files added
    walked,         \* the paths os.walk has yielded so far, in order
    debug_log,      \* debug_obj.debug messages, one entry per file examined
    getsize_calls,  \* the os.path.getsize calls so far: [path, stat]
    scans,          \* number of scan() calls made on the object
    errors_log,     \* the lines written to the errors log, after its header
    \* ---- do_compare (one run on two scanned trees) ----
    fs,             \* the file system: what each path names now
    listing,        \* the order in which os.walk lists the files of WalkDirs[1]
    source,         \* the source ScanDirectory object
    target,         \* the target ScanDirectory object
    options,        \* the global options: [sourceDir, targetDir]
    many_dupes,     \* settings.many_dupes
    settings,       \* the sub-directory settings of the Settings object
    match_pc,       \* position in the run
    counter,        \* do_compare's counter: source entries passed so far
    visited_files,  \* do_compare's visited_files list
    suppressed,     \* the source paths skipped at line 621, in order
    results_log,    \* the RESULT lines written to the duplicates log, in order
    compare_calls,  \* the compare_two_files calls made: <<file_a, file_b>>
    exit_errors,    \* the paths named by the error of a compare that exited
    changes,        \* number of changes made to the tree during the compare
    \* ---- __main__ (one run of the program) ----
    argv_flags,     \* the boolean options given on the command line
    argv_rest,      \* what each positional argument names, in order
    log_creatable,  \* whether open(log_file, "w") succeeds
    main_pc,        \* position in __main__
    opts,           \* the option values define_options returned
    defaults,       \* the defaults dictionary
    main_settings,  \* the Settings object's attributes
    exit_status,    \* the status of sys.exit, -1 while the run has not exited
    exit_point,     \* the function that called sys.exit
    main_errors,    \* lib.display_error calls of the run: the message keys
    main_messages,  \* lib.display_message calls of the run: the message keys
    log_lines,      \* what has been written to the duplicates log
    \* ---- the two ScanDirectory(...) calls of __main__ ----
    build_settings, \* the Settings attributes the calls read
    source_obj,     \* outcome of the call of lines 880-888
    target_obj,     \* outcome of the call of lines 892-900
    \* ---- Debug (one object and the calls of its debug method) ----
    debug_obj,      \* the Debug object: its parameters and count
    dbg_pc,         \* "running", or "exited" once debug has called sys.exit
    dbg_calls,      \* number of debug() calls made
    dbg_file,       \* the debug file: the call that wrote each line
    dbg_stderr,     \* stderr: the call that wrote each line
    dbg_stdout,     \* stdout: the call that wrote each line
    \* ---- Settings.run_wizard (one run) ----
    wiz_advanced,   \* self.advanced
    wiz_pc,         \* position in run_wizard: the step that comes next
    current_step,   \* run_wizard's local current_step
    steps_shown,    \* the step numbers displayed so far, in order
    wiz_answer,     \* the answer to the last yes/no question that guards a step
    wiz_settings,   \* the yes/no attributes of the Settings object
    \* ---- UI.get_input (one call on one single-item UI object) ----
    ui_class,       \* the class of the UI object
    default_value,  \* self.default_value
    ui_values,      \* self.values
    ui_pc,          \* "prompt" while get_input loops, then how it ended
    ui_inputs       \* the responses typed at the prompt so far, in order

cmp_vars == <<file_a, file_b, single_pass, cmp_pc, cmp_result, hash_calls,
              cmp_errors>>

scan_vars == <<scan_obj, scan_pc, checked_counter, actual_counter, walked,
               debug_log, getsize_calls, scans, errors_log>>

match_vars == <<fs, listing, source, target, options, many_dupes, settings, match_pc,
                counter, visited_files, suppressed, results_log, compare_calls,
                exit_errors, changes>>

main_vars == <<argv_flags, argv_rest, log_creatable, main_pc, opts, defaults,
               main_settings, exit_status, exit_point, main_errors, main_messages,
               log_lines>>

build_vars == <<build_settings, source_obj, target_obj>>

dbg_vars == <<debug_obj, dbg_pc, dbg_calls, dbg_file, dbg_stderr, dbg_stdout>>

wiz_vars == <<wiz_advanced, wiz_pc, current_step, steps_shown, wiz_answer, wiz_settings>>

ui_vars == <<ui_class, default_value, ui_values, ui_pc, ui_inputs>>

aux_vars == <<main_vars, build_vars, dbg_vars, wiz_vars, ui_vars>>

vars == <<cmp_vars, scan_vars, match_vars, aux_vars>>

\* ------------------------------------------------------------------------
\* Bounds of the model.
\* ------------------------------------------------------------------------
\* A file's content is a sequence of blocks; a block stands for num_bytes
\* consecutive bytes of the file (the last one possibly fewer).
MaxBlocks == 2
\* Number of different values a block can take.
NumBlockValues == 3
\* Number of different digests.  A digest has a fixed width while contents
\* are unbounded, so different contents can share a digest; the model keeps
\* that by having fewer digests than block values.
DigestSize == 2

\* md5_partial_match's default num_bytes: the length of the prefix hashed.
num_bytes == 1024

Blocks == 0 .. (NumBlockValues - 1)

RECURSIVE SeqsUpTo(_, _)
SeqsUpTo(S, n) ==
    IF n = 0 THEN {<<>>}
    ELSE LET shorter == SeqsUpTo(S, n - 1)
         IN  shorter \cup {Append(s, x) : s \in {t \in shorter : Len(t) = n - 1}, x \in S}

Contents == SeqsUpTo(Blocks, MaxBlocks)

\* What a path can name when it is looked at.
RegularFile(c) == [kind |-> "file", content |-> c]
Directory == [kind |-> "dir", content |-> <<>>]
Missing == [kind |-> "missing", content |-> <<>>]
PathStates == {RegularFile(c) : c \in Contents} \cup {Directory, Missing}

\* os.path.getsize of a regular file.
FileSize(content) == Len(content) * num_bytes

\* ------------------------------------------------------------------------
\* hashlib.md5: update() folds one chunk into the running state, hexdigest()
\* reads the state.
\* ------------------------------------------------------------------------
Md5Init == 0

Md5Update(h, chunk) == (h + chunk) % DigestSize

RECURSIVE Md5(_)
Md5(data) ==
    IF data = <<>> THEN Md5Init
    ELSE Md5Update(Md5(SubSeq(data, 1, Len(data) - 1)), data[Len(data)])

\* f.read(num_bytes) on a freshly opened file: the first num_bytes bytes.
ReadPrefix(content) == IF content = <<>> THEN <<>> ELSE <<content[1]>>

\* md5_partial_match(file_path_a, file_path_b): checksum_a == checksum_b.
PartialMutantIgnoresB(content_a, content_b) ==
    Md5(ReadPrefix(content_a)) = Md5(ReadPrefix(content_a))

md5_partial_match(content_a, content_b) ==
    Md5(ReadPrefix(content_a)) = Md5(ReadPrefix(content_b))

\* md5_full_match(file_path_a, file_path_b): the shared checksum, or False.
\* Only its truth value is used by the caller; a hexdigest is a non-empty
\* string and so always true.
FullMutantPrefixOnly(content_a, content_b) ==
    Md5(ReadPrefix(content_a)) = Md5(ReadPrefix(content_b))

md5_full_match(content_a, content_b) ==
    Md5(content_a) = Md5(content_b)

FailingArgumentMutantChecksOnlyA(fa, fb) ==
    IF fa.kind = "missing" THEN "a"
    ELSE IF fa.kind = "dir" THEN "a"
    ELSE "none"

\* The four checks at the head of compare_two_files, in their order: the
\* argument the error names, or "none".
FailingArgument(fa, fb) ==
    IF fa.kind = "missing" THEN "a"
    ELSE IF fa.kind = "dir" THEN "a"
    ELSE IF fb.kind = "missing" THEN "b"
    ELSE IF fb.kind = "dir" THEN "b"
    ELSE "none"

\* compare_two_files as a function of what the two paths name:
\* exited = sys.exit(1) was called; value = the boolean returned otherwise.
compare_two_files(fa, fb, sp) ==
    IF FailingArgument(fa, fb) # "none"
    THEN [exited |-> TRUE, value |-> FALSE]
    ELSE IF sp
    THEN [exited |-> FALSE, value |-> md5_full_match(fa.content, fb.content)]
    ELSE [exited |-> FALSE,
          value |-> md5_partial_match(fa.content, fb.content)
                    /\ md5_full_match(fa.content, fb.content)]

CmpIdle ==
    /\ file_a = Missing
    /\ file_b = Missing
    /\ single_pass = FALSE
    /\ cmp_pc = "idle"
    /\ cmp_result = "none"
    /\ hash_calls = <<>>
    /\ cmp_errors = <<>>

\* ------------------------------------------------------------------------
\* ScanDirectory (scanDirectory.py).
\* ------------------------------------------------------------------------
\* Most files one scanned tree holds, and the largest size of a file in it.
MaxFiles == 2
MaxSize == 1

\* File names are sequences of characters.
DS_Store == <<".", "D", "S", "_", "S", "t", "o", "r", "e">>
NameHidden == <<".", "h">>
NameJpg == <<"a", ".", "j", "p", "g">>
NameTxt == <<"b", ".", "t", "x", "t">>
NameNoExt == <<"c">>

ExtJPG == <<"J", "P", "G">>
ExtTXT == <<"T", "X", "T">>

\* The scanned directory and its one sub-directory, in the order os.walk
\* (top-down) yields them.
WalkDirs == <<"/a", "/a/s">>

DirIndex(d) == CHOOSE i \in 1 .. Len(WalkDirs) : WalkDirs[i] = d

\* os.path.join(root, file_name)
PathJoin(root, file_name) == <<root, file_name>>

\* The paths a scanned tree can hold.
TreePaths ==
    {PathJoin(WalkDirs[1], n) : n \in {DS_Store, NameHidden, NameJpg, NameNoExt}}
    \cup {PathJoin(WalkDirs[2], n) : n \in {NameJpg, NameTxt}}

\* What os.path.getsize does on a path: returns a size or raises.
StatOk(n) == [error |-> "none", size |-> n]
StatNotFound == [error |-> "FileNotFoundError", size |-> 0]
StatOtherError == [error |-> "OSError", size |-> 0]
Stats == {StatOk(n) : n \in 0 .. MaxSize} \cup {StatNotFound, StatOtherError}

\* str.upper() of one character.
LowerCase == <<"a", "b", "c", "e", "g", "h", "j", "o", "p", "r", "t", "x", "q", "y">>
UpperCase == <<"A", "B", "C", "E", "G", "H", "J", "O", "P", "R", "T", "X", "Q", "Y">>

Upper(c) ==
    IF \E i \in 1 .. Len(LowerCase) : LowerCase[i] = c
    THEN UpperCase[CHOOSE i \in 1 .. Len(LowerCase) : LowerCase[i] = c]
    ELSE c

StrUpper(str) == [i \in 1 .. Len(str) |-> Upper(str[i])]

\* str.lstrip(".")
RECURSIVE LStripDot(_)
LStripDot(str) ==
    IF str # <<>> /\ str[1] = "." THEN LStripDot(Tail(str)) ELSE str

\* os.path.splitext(file_name)[1]: from the last dot on, provided a
\* character other than a dot comes before it; otherwise empty.
SplitExt(file_name) ==
    LET dots == {i \in 1 .. Len(file_name) : file_name[i] = "."}
        dotIndex == IF dots = {} THEN 0
                    ELSE CHOOSE i \in dots : \A j \in dots : j <= i
    IN  IF dotIndex > 0 /\ \E k \in 1 .. (dotIndex - 1) : file_name[k] # "."
        THEN SubSeq(file_name, dotIndex, Len(file_name))
        ELSE <<>>

\* ext = os.path.splitext(file_name)[1]; ext = ext.upper().lstrip(".")
Ext(file_name) == LStripDot(StrUpper(SplitExt(file_name)))

\* The patterns parameter: None, or a list of strings.
PatternsNone == [is_none |-> TRUE, list |-> {}]
PatternsList(l) == [is_none |-> FALSE, list |-> l]
PatternChoices == {PatternsNone, PatternsList({ExtJPG}), PatternsList({<<>>, ExtTXT})}

\* A Python dict, in insertion order: a sequence of [key, value].
DictHas(d, k) == \E i \in 1 .. Len(d) : d[i].key = k

DictGet(d, k) == d[CHOOSE i \in 1 .. Len(d) : d[i].key = k].value

DictSet(d, k, v) ==
    IF DictHas(d, k)
    THEN [i \in 1 .. Len(d) |-> IF d[i].key = k THEN [key |-> k, value |-> v] ELSE d[i]]
    ELSE Append(d, [key |-> k, value |-> v])

DictKeys(d) == [i \in 1 .. Len(d) |-> d[i].key]

\* ScanDirectory.__init__
NewScanDirectory(scan_dir, skip_hidden, skip_dsstore, limit_to_patterns, patterns, skip_zero_len, type_is_source, has_debug) ==
    [scan_dir |-> scan_dir,
     skip_hidden |-> skip_hidden,
     skip_dsstore |-> skip_dsstore,
     limit_to_patterns |-> limit_to_patterns,
     patterns |-> patterns,
     skip_zero_len |-> skip_zero_len,
     type_is_source |-> type_is_source,
     has_debug |-> has_debug,
     file_count |-> 0,
     items |-> <<>>]

\* The tests of scan()'s loop body, each as the code writes it.
IsHiddenSkip(obj, f) == obj.skip_hidden /\ f.file_name[1] = "."

IsDsStoreSkip(obj, f) == obj.skip_dsstore /\ f.file_name = DS_Store

PatternSkipMutantNeverSkips(obj, f) ==
    /\ obj.limit_to_patterns /\ ~obj.patterns.is_none
    /\ ~obj.limit_to_patterns /\ Ext(f.file_name) \notin obj.patterns.list

PatternSkipMutantKeepsNoExt(obj, f) ==
    /\ obj.limit_to_patterns /\ ~obj.patterns.is_none
    /\ Ext(f.file_name) # <<>> /\ Ext(f.file_name) \notin obj.patterns.list

IsPatternSkip(obj, f) ==
    /\ obj.limit_to_patterns /\ ~obj.patterns.is_none
    /\ obj.limit_to_patterns /\ Ext(f.file_name) \notin obj.patterns.list

ZeroLenSkipMutantOffByOne(obj, f) == obj.skip_zero_len /\ f.stat.size < 0

IsZeroLenSkip(obj, f) == obj.skip_zero_len /\ f.stat.size < 1

AddItemMutantReplacesBucket(obj, f) ==
    LET file_path == PathJoin(f.root, f.file_name)
        file_size == f.stat.size
    IN  IF obj.type_is_source
        THEN DictSet(obj.items, file_path, <<f.file_name, file_size>>)
        ELSE DictSet(obj.items, file_size, <<(<<file_path, file_size>>)>>)

\* Lines 150-182: the accepted file goes into items.
AddItem(obj, f) ==
    LET file_path == PathJoin(f.root, f.file_name)
        file_size == f.stat.size
    IN  IF obj.type_is_source
        THEN DictSet(obj.items, file_path, <<f.file_name, file_size>>)
        ELSE IF ~DictHas(obj.items, file_size)
        THEN DictSet(obj.items, file_size, <<(<<file_path, file_size>>)>>)
        ELSE DictSet(obj.items, file_size,
                     Append(DictGet(obj.items, file_size), <<file_path, file_size>>))

AddMessage(obj, f) ==
    IF obj.type_is_source THEN "adding file by name."
    ELSE IF ~DictHas(obj.items, f.stat.size) THEN "adding file by size."
    ELSE "APPENDING file by size."

ScanFileMutantOrder(obj, checked, actual, f) ==
    LET out == [items |-> obj.items,
                checked_counter |-> checked + 1,
                actual_counter |-> actual,
                message |-> "",
                sized |-> FALSE,
                raised |-> FALSE]
    IN  IF IsDsStoreSkip(obj, f)
        THEN [out EXCEPT !.message = "file is .DSStore. skipping."]
        ELSE IF IsHiddenSkip(obj, f)
        THEN [out EXCEPT !.message = "file is hidden. skipping."]
        ELSE IF IsPatternSkip(obj, f)
        THEN [out EXCEPT !.message = "ext is wrong type. skipping."]
        ELSE IF f.stat.error = "FileNotFoundError"
        THEN [out EXCEPT !.message = "Cannot read size. skipping.", !.sized = TRUE]
        ELSE IF f.stat.error # "none"
        THEN [out EXCEPT !.sized = TRUE, !.raised = TRUE]
        ELSE IF IsZeroLenSkip(obj, f)
        THEN [out EXCEPT !.message = "file is zero length. skipping.", !.sized = TRUE]
        ELSE [out EXCEPT !.message = AddMessage(obj, f),
                         !.sized = TRUE,
                         !.actual_counter = actual + 1,
                         !.items = AddItem(obj, f)]

\* One pass through the body of "for file_name in files" (lines 83-182) for
\* the file f = [root, file_name, stat]: what it leaves behind.
\*   message  the debug message that follows "scanning: <file_name>"
\*   sized    os.path.getsize was called
\*   raised   an exception left scan()
ScanFile(obj, checked, actual, f) ==
    LET out == [items |-> obj.items,
                checked_counter |-> checked + 1,
                actual_counter |-> actual,
                message |-> "",
                sized |-> FALSE,
                raised |-> FALSE]
    IN  IF IsHiddenSkip(obj, f)
        THEN [out EXCEPT !.message = "file is hidden. skipping."]
        ELSE IF IsDsStoreSkip(obj, f)
        THEN [out EXCEPT !.message = "file is .DSStore. skipping."]
        ELSE IF IsPatternSkip(obj, f)
        THEN [out EXCEPT !.message = "ext is wrong type. skipping."]
        ELSE IF f.stat.error = "FileNotFoundError"
        THEN [out EXCEPT !.message = "Cannot read size. skipping.", !.sized = TRUE]
        ELSE IF f.stat.error # "none"
        THEN [out EXCEPT !.sized = TRUE, !.raised = TRUE]
        ELSE IF IsZeroLenSkip(obj, f)
        THEN [out EXCEPT !.message = "file is zero length. skipping.", !.sized = TRUE]
        ELSE [out EXCEPT !.message = AddMessage(obj, f),
                         !.sized = TRUE,
                         !.actual_counter = actual + 1,
                         !.items = AddItem(obj, f)]

ScanIdle ==
    /\ scan_obj = NewScanDirectory(WalkDirs[1], TRUE, TRUE, FALSE, PatternsNone,
                                   TRUE, TRUE, FALSE)
    /\ scan_pc = "idle"
    /\ checked_counter = 0
    /\ actual_counter = 0
    /\ walked = <<>>
    /\ debug_log = <<>>
    /\ getsize_calls = <<>>
    /\ scans = 0
    /\ errors_log = <<>>

\* ------------------------------------------------------------------------
\* do_compare (findDuplicates.py, lines 580-707) on two scanned trees.
\* ------------------------------------------------------------------------
\* Settings.__init__, lines 52-56: whether sub-directories of the source and
\* of the target are to be skipped, and which.
NewSettings(skip_source, source_dirs_to_skip, skip_target_sub_dirs, target_dirs_to_skip) ==
    [skip_source |-> skip_source,
     source_dirs_to_skip |-> source_dirs_to_skip,
     skip_target_sub_dirs |-> skip_target_sub_dirs,
     target_dirs_to_skip |-> target_dirs_to_skip]

\* OPTIONS_SETTINGS, lines 30-39: the built-in defaults.
DefaultSettings == NewSettings(FALSE, {}, FALSE, {})

\* Most changes the tree undergoes while the compare runs.
MaxChanges == 1

\* The paths of the compared trees, and what they can hold.
MatchPaths ==
    {PathJoin(WalkDirs[1], NameJpg), PathJoin(WalkDirs[1], NameNoExt),
     PathJoin(WalkDirs[2], NameJpg)}

MatchContents == {<<0>>, <<1>>, <<0, 0>>, <<1, 1>>}

MatchStates == {RegularFile(c) : c \in MatchContents} \cup {Missing}

\* The two orders in which os.walk can list the files of WalkDirs[1].
Listings == {<<NameJpg, NameNoExt>>, <<NameNoExt, NameJpg>>}

\* os.walk(root), top-down: the regular files below root with their stat.
DirListing(tree, order, d) ==
    LET names == IF d = WalkDirs[1] THEN order ELSE <<NameJpg>>
        present(n) == tree[PathJoin(d, n)].kind = "file"
        file(n) == [root |-> d, file_name |-> n,
                    stat |-> StatOk(FileSize(tree[PathJoin(d, n)].content))]
        kept == SelectSeq(names, present)
    IN  [i \in 1 .. Len(kept) |-> file(kept[i])]

OsWalk(tree, order, root) ==
    IF root = WalkDirs[1]
    THEN DirListing(tree, order, WalkDirs[1]) \o DirListing(tree, order, WalkDirs[2])
    ELSE DirListing(tree, order, WalkDirs[2])

\* ScanDirectory.scan() from start to end on an unchanging tree.
RECURSIVE ScanFiles(_, _, _, _)
ScanFiles(obj, checked, actual, files) ==
    IF files = <<>>
    THEN [obj EXCEPT !.file_count = actual]
    ELSE LET r == ScanFile(obj, checked, actual, Head(files))
         IN  ScanFiles([obj EXCEPT !.items = r.items], r.checked_counter,
                       r.actual_counter, Tail(files))

ScanMutantCountsOn(obj, tree, order) ==
    ScanFiles(obj, 0, obj.file_count, OsWalk(tree, order, obj.scan_dir))

scan(obj, tree, order) == ScanFiles(obj, 0, 0, OsWalk(tree, order, obj.scan_dir))

\* get_count(), lines 192-199.
get_count(obj) == obj.file_count

\* The values scan()'s two local counters have when the loop has ended.
RECURSIVE ScanCounters(_, _, _, _)
ScanCounters(obj, checked, actual, files) ==
    IF files = <<>>
    THEN [checked_counter |-> checked, actual_counter |-> actual]
    ELSE LET r == ScanFile(obj, checked, actual, Head(files))
         IN  ScanCounters([obj EXCEPT !.items = r.items], r.checked_counter,
                          r.actual_counter, Tail(files))

MatchIdle ==
    /\ fs = [p \in MatchPaths |-> Missing]
    /\ listing = <<NameJpg, NameNoExt>>
    /\ source = NewScanDirectory(WalkDirs[1], TRUE, TRUE, FALSE, PatternsNone, TRUE, TRUE, FALSE)
    /\ target = NewScanDirectory(WalkDirs[1], TRUE, TRUE, FALSE, PatternsNone, TRUE, FALSE, FALSE)
    /\ options = [sourceDir |-> WalkDirs[1], targetDir |-> WalkDirs[1]]
    /\ many_dupes = FALSE
    /\ settings = DefaultSettings
    /\ match_pc = "idle"
    /\ counter = 0
    /\ visited_files = <<>>
    /\ suppressed = <<>>
    /\ results_log = <<>>
    /\ compare_calls = <<>>
    /\ exit_errors = <<>>
    /\ changes = 0
\* The state of __main__ before the program has started.
MainIdle ==
    /\ argv_flags = {}
    /\ argv_rest = <<>>
    /\ log_creatable = TRUE
    /\ main_pc = "idle"
    /\ opts = <<>>
    /\ defaults = <<>>
    /\ main_settings = <<>>
    /\ exit_status = -1
    /\ exit_point = "none"
    /\ main_errors = <<>>
    /\ main_messages = <<>>
    /\ log_lines = <<>>

\* The state of the two ScanDirectory(...) calls before either is made.
BuildIdle ==
    /\ build_settings = <<>>
    /\ source_obj = [state |-> "none"]
    /\ target_obj = [state |-> "none"]

\* The state of a Debug object that has not been constructed.
DebugIdle ==
    /\ debug_obj = <<>>
    /\ dbg_pc = "idle"
    /\ dbg_calls = 0
    /\ dbg_file = <<>>
    /\ dbg_stderr = <<>>
    /\ dbg_stdout = <<>>

\* The state of a Settings object whose wizard has not been started.
WizardIdle ==
    /\ wiz_advanced = FALSE
    /\ wiz_pc = "idle"
    /\ current_step = 0
    /\ steps_shown = <<>>
    /\ wiz_answer = FALSE
    /\ wiz_settings = <<>>

\* The state of a UI object whose get_input has not been called.
UiIdle ==
    /\ ui_class = "UI"
    /\ default_value = <<>>
    /\ ui_values = <<>>
    /\ ui_pc = "idle"
    /\ ui_inputs = <<>>

\* The variables of the specifications that follow SpecRescan, at rest.
AuxIdle ==
    /\ MainIdle
    /\ BuildIdle
    /\ DebugIdle
    /\ WizardIdle
    /\ UiIdle


\* The two ScanDirectory objects do_compare is given: a source object
\* (keyed on path) and a target object (keyed on size), not yet scanned.
Init ==
    /\ fs \in [MatchPaths -> MatchStates]
    /\ listing \in Listings
    /\ \E sd, td \in {WalkDirs[i] : i \in 1 .. Len(WalkDirs)} :
        /\ source = NewScanDirectory(sd, TRUE, TRUE, FALSE, PatternsNone, TRUE, TRUE, FALSE)
        /\ target = NewScanDirectory(td, TRUE, TRUE, FALSE, PatternsNone, TRUE, FALSE, FALSE)
    /\ \E sd, td \in {WalkDirs[i] : i \in 1 .. Len(WalkDirs)} :
        options = [sourceDir |-> sd, targetDir |-> td]
    /\ many_dupes \in BOOLEAN
    /\ settings = DefaultSettings
    /\ match_pc = "scan_source"
    /\ counter = 0
    /\ visited_files = <<>>
    /\ suppressed = <<>>
    /\ results_log = <<>>
    /\ compare_calls = <<>>
    /\ exit_errors = <<>>
    /\ changes = 0
    /\ CmpIdle
    /\ ScanIdle
    /\ AuxIdle

\* source.scan()
ScanSource ==
    /\ match_pc = "scan_source"
    /\ source' = scan(source, fs, listing)
    /\ match_pc' = "scan_target"
    /\ UNCHANGED <<fs, listing, target, options, many_dupes, counter, visited_files,
                   suppressed, results_log, compare_calls, exit_errors, changes>>
    /\ UNCHANGED <<settings, cmp_vars, scan_vars, aux_vars>>

\* target.scan()
ScanTarget ==
    /\ match_pc = "scan_target"
    /\ target' = scan(target, fs, listing)
    /\ match_pc' = "compare"
    /\ UNCHANGED <<fs, listing, source, options, many_dupes, counter, visited_files,
                   suppressed, results_log, compare_calls, exit_errors, changes>>
    /\ UNCHANGED <<settings, cmp_vars, scan_vars, aux_vars>>

\* Between two source files of the compare, a file of the tree is removed or
\* replaced by a directory.
TreeChanges ==
    /\ match_pc = "compare"
    /\ changes < MaxChanges
    /\ \E p \in MatchPaths, now \in {Missing, Directory} :
        /\ fs[p].kind = "file"
        /\ fs' = [fs EXCEPT ![p] = now]
    /\ changes' = changes + 1
    /\ UNCHANGED <<listing, source, target, options, many_dupes, match_pc, counter,
                   visited_files, suppressed, results_log, compare_calls, exit_errors>>
    /\ UNCHANGED <<settings, cmp_vars, scan_vars, aux_vars>>

\* Lines 619-621: the source file was recorded as a match of an earlier one.
IsSuppressed(source_file_path) ==
    /\ source.scan_dir = target.scan_dir
    /\ \E i \in 1 .. Len(visited_files) : visited_files[i] = source_file_path

\* Lines 630-635: the target files of the source file's size.
PossibleMatches(source_file_size) ==
    IF DictHas(target.items, source_file_size)
    THEN DictGet(target.items, source_file_size)
    ELSE <<>>

IsSelfMutantOnlyAcrossRoots(source_file_path, match_file_path) ==
    source_file_path = match_file_path /\ source.scan_dir # target.scan_dir

\* Lines 644-645: "Don't match against yourself".
IsSelf(source_file_path, match_file_path) == source_file_path = match_file_path

RECURSIVE CheckMatchesMutantFirstOnly(_, _, _)
CheckMatchesMutantFirstOnly(source_file_path, possible_matches_list, acc) ==
    IF possible_matches_list = <<>> \/ acc.exited \/ acc.duplicate_list # <<>>
    THEN acc
    ELSE LET possibleMatch == Head(possible_matches_list)
             match_file_path == possibleMatch[1]
             match_file_size == possibleMatch[2]
             rest == Tail(possible_matches_list)
             r == compare_two_files(fs[source_file_path], fs[match_file_path], many_dupes)
             called == [acc EXCEPT !.calls = Append(@, <<source_file_path, match_file_path>>)]
         IN  IF IsSelf(source_file_path, match_file_path)
             THEN CheckMatchesMutantFirstOnly(source_file_path, rest, acc)
             ELSE IF r.exited
             THEN [called EXCEPT !.exited = TRUE, !.error = match_file_path]
             ELSE IF r.value
             THEN CheckMatchesMutantFirstOnly(source_file_path, rest,
                      [called EXCEPT
                           !.duplicate_list = Append(@, <<match_file_path, match_file_size>>),
                           !.visited = IF options.sourceDir = options.targetDir
                                       THEN Append(@, match_file_path) ELSE @])
             ELSE CheckMatchesMutantFirstOnly(source_file_path, rest, called)

\* Lines 638-664: the loop over the possible matches of one source file.
\* acc holds duplicate_list, visited_files, the compare calls made, and
\* whether (and on which argument) compare_two_files has exited.
RECURSIVE CheckMatches(_, _, _)
CheckMatches(source_file_path, possible_matches_list, acc) ==
    IF possible_matches_list = <<>> \/ acc.exited
    THEN acc
    ELSE LET possibleMatch == Head(possible_matches_list)
             match_file_path == possibleMatch[1]
             match_file_size == possibleMatch[2]
             rest == Tail(possible_matches_list)
             r == compare_two_files(fs[source_file_path], fs[match_file_path], many_dupes)
             called == [acc EXCEPT !.calls = Append(@, <<source_file_path, match_file_path>>)]
         IN  IF IsSelf(source_file_path, match_file_path)
             THEN CheckMatches(source_file_path, rest, acc)
             ELSE IF r.exited
             THEN [called EXCEPT
                       !.exited = TRUE,
                       !.error = IF FailingArgument(fs[source_file_path],
                                                    fs[match_file_path]) = "a"
                                 THEN source_file_path ELSE match_file_path]
             ELSE IF r.value
             THEN CheckMatches(source_file_path, rest,
                      [called EXCEPT
                           !.duplicate_list = Append(@, <<match_file_path, match_file_size>>),
                           !.visited = IF options.sourceDir = options.targetDir
                                       THEN Append(@, match_file_path) ELSE @])
             ELSE CheckMatches(source_file_path, rest, called)

\* Lines 677-693: the RESULT line of one source file.
ResultLine(source_file_path, source_file_size, duplicate_list) ==
    [result |-> IF Len(duplicate_list) > 0 THEN "DUPLICATE" ELSE "UNIQUE",
     path |-> source_file_path,
     size |-> source_file_size,
     is_symlink |-> FALSE,
     matches |-> duplicate_list]

\* Lines 607-707: one pass through "for source_file_path in source.items.keys()".
CompareNext ==
    /\ match_pc = "compare"
    /\ counter < Len(source.items)
    /\ LET source_file_path == DictKeys(source.items)[counter + 1]
           source_file_size == DictGet(source.items, source_file_path)[2]
           acc == CheckMatches(source_file_path, PossibleMatches(source_file_size),
                               [duplicate_list |-> <<>>, visited |-> visited_files,
                                calls |-> <<>>, exited |-> FALSE,
                                error |-> source_file_path])
       IN  IF IsSuppressed(source_file_path)
           THEN /\ counter' = counter + 1
                /\ suppressed' = Append(suppressed, source_file_path)
                /\ UNCHANGED <<visited_files, results_log, compare_calls, exit_errors,
                               match_pc>>
           ELSE /\ compare_calls' = compare_calls \o acc.calls
                /\ suppressed' = suppressed
                /\ visited_files' = acc.visited
                /\ IF acc.exited
                   THEN /\ match_pc' = "exited"
                        /\ exit_errors' = Append(exit_errors, acc.error)
                        /\ counter' = counter + 1
                        /\ UNCHANGED results_log
                   ELSE /\ counter' = counter + 1
                        /\ results_log' = Append(results_log,
                               ResultLine(source_file_path, source_file_size,
                                          acc.duplicate_list))
                        /\ UNCHANGED <<match_pc, exit_errors>>
    /\ UNCHANGED <<fs, listing, source, target, options, many_dupes, changes>>
    /\ UNCHANGED <<settings, cmp_vars, scan_vars, aux_vars>>

\* The loop over source.items has passed its last entry.
CompareEnd ==
    /\ match_pc = "compare"
    /\ counter = Len(source.items)
    /\ match_pc' = "done"
    /\ UNCHANGED <<fs, listing, source, target, options, many_dupes, counter,
                   visited_files, suppressed, results_log, compare_calls, exit_errors,
                   changes>>
    /\ UNCHANGED <<settings, cmp_vars, scan_vars, aux_vars>>

Next ==
    \/ ScanSource
    \/ ScanTarget
    \/ TreeChanges
    \/ CompareNext
    \/ CompareEnd

Spec == Init /\ [][Next]_vars

\* ------------------------------------------------------------------------
\* SpecScan: one ScanDirectory object, constructed and scanned.
\* ------------------------------------------------------------------------
InitScan ==
    /\ \E sh, sd, lp, sz, src, dbg \in BOOLEAN, pat \in PatternChoices :
           scan_obj = NewScanDirectory(WalkDirs[1], sh, sd, lp, pat, sz, src, dbg)
    /\ scan_pc = "new"
    /\ checked_counter = 0
    /\ actual_counter = 0
    /\ walked = <<>>
    /\ debug_log = <<>>
    /\ getsize_calls = <<>>
    /\ scans = 0
    /\ errors_log = <<>>
    /\ CmpIdle
    /\ MatchIdle
    /\ AuxIdle

\* Lines 64-78: scan() starts; the counters are initialised.
ScanBegin ==
    /\ scan_pc = "new"
    /\ scan_pc' = "walking"
    /\ checked_counter' = 0
    /\ actual_counter' = 0
    /\ scans' = scans + 1
    /\ UNCHANGED <<scan_obj, walked, debug_log, getsize_calls, errors_log>>
    /\ UNCHANGED <<cmp_vars, match_vars, aux_vars>>

\* The files os.walk can yield next: a path not yet yielded, in a directory
\* not before the one of the last file yielded.
CanWalkNext(path) ==
    /\ path \in TreePaths
    /\ \A i \in 1 .. Len(walked) :
           /\ walked[i] # path
           /\ DirIndex(walked[i][1]) <= DirIndex(path[1])

\* Lines 81-182: os.walk yields one more file and the loop body runs on it.
ScanNextFile ==
    /\ scan_pc = "walking"
    /\ Len(walked) < MaxFiles
    /\ \E path \in TreePaths, st \in Stats :
        /\ CanWalkNext(path)
        /\ LET f == [root |-> path[1], file_name |-> path[2], stat |-> st]
               r == ScanFile(scan_obj, checked_counter, actual_counter, f)
           IN  /\ walked' = Append(walked, path)
               /\ scan_obj' = [scan_obj EXCEPT !.items = r.items]
               /\ checked_counter' = r.checked_counter
               /\ actual_counter' = r.actual_counter
               /\ debug_log' = IF scan_obj.has_debug
                               THEN Append(debug_log, [file_name |-> f.file_name,
                                                       message |-> r.message])
                               ELSE debug_log
               /\ getsize_calls' = IF r.sized
                                   THEN Append(getsize_calls, [path |-> path, stat |-> st])
                                   ELSE getsize_calls
               /\ scan_pc' = IF r.raised THEN "raised" ELSE "walking"
    /\ UNCHANGED <<scans, errors_log>>
    /\ UNCHANGED <<cmp_vars, match_vars, aux_vars>>

\* Lines 184-189: os.walk is exhausted; the count is stored.
ScanEnd ==
    /\ scan_pc = "walking"
    /\ scan_obj' = [scan_obj EXCEPT !.file_count = actual_counter]
    /\ scan_pc' = "done"
    /\ UNCHANGED <<checked_counter, actual_counter, walked, debug_log, getsize_calls,
                   scans, errors_log>>
    /\ UNCHANGED <<cmp_vars, match_vars, aux_vars>>

NextScan ==
    \/ ScanBegin
    \/ ScanNextFile
    \/ ScanEnd

SpecScan == InitScan /\ [][NextScan]_vars

\* ------------------------------------------------------------------------
\* SpecCompare: one call of compare_two_files(file_a, file_b, single_pass).
\* ------------------------------------------------------------------------
InitCompare ==
    /\ file_a \in PathStates
    /\ file_b \in PathStates
    /\ single_pass \in BOOLEAN
    /\ cmp_pc = "verify"
    /\ cmp_result = "none"
    /\ hash_calls = <<>>
    /\ cmp_errors = <<>>
    /\ ScanIdle
    /\ MatchIdle
    /\ AuxIdle

\* Lines 726-745: "Some basic error checking."
CmpVerify ==
    /\ cmp_pc = "verify"
    /\ IF FailingArgument(file_a, file_b) # "none"
       THEN /\ cmp_errors' = Append(cmp_errors, FailingArgument(file_a, file_b))
            /\ cmp_pc' = "exited"
       ELSE /\ cmp_errors' = cmp_errors
            /\ cmp_pc' = IF single_pass THEN "single" ELSE "partial"
    /\ UNCHANGED <<file_a, file_b, single_pass, cmp_result, hash_calls>>
    /\ UNCHANGED <<scan_vars, match_vars, aux_vars>>

\* Lines 748-750 and 756: the single_pass branch.
CmpSinglePass ==
    /\ cmp_pc = "single"
    /\ hash_calls' = Append(hash_calls, "full")
    /\ cmp_result' = IF md5_full_match(file_a.content, file_b.content)
                     THEN "True" ELSE "False"
    /\ cmp_pc' = "returned"
    /\ UNCHANGED <<file_a, file_b, single_pass, cmp_errors>>
    /\ UNCHANGED <<scan_vars, match_vars, aux_vars>>

\* Lines 751-752 and 756: the partial check of the two-pass branch.
CmpPartial ==
    /\ cmp_pc = "partial"
    /\ hash_calls' = Append(hash_calls, "partial")
    /\ IF md5_partial_match(file_a.content, file_b.content)
       THEN /\ cmp_pc' = "full"
            /\ cmp_result' = cmp_result
       ELSE /\ cmp_pc' = "returned"
            /\ cmp_result' = "False"
    /\ UNCHANGED <<file_a, file_b, single_pass, cmp_errors>>
    /\ UNCHANGED <<scan_vars, match_vars, aux_vars>>

\* Lines 753-756: the full check after a partial match.
CmpFull ==
    /\ cmp_pc = "full"
    /\ hash_calls' = Append(hash_calls, "full")
    /\ cmp_result' = IF md5_full_match(file_a.content, file_b.content)
                     THEN "True" ELSE "False"
    /\ cmp_pc' = "returned"
    /\ UNCHANGED <<file_a, file_b, single_pass, cmp_errors>>
    /\ UNCHANGED <<scan_vars, match_vars, aux_vars>>

NextCompare ==
    \/ CmpVerify
    \/ CmpSinglePass
    \/ CmpPartial
    \/ CmpFull

SpecCompare == InitCompare /\ [][NextCompare]_vars

\* ------------------------------------------------------------------------
\* SpecRescan: one ScanDirectory object whose scan() is called more than
\* once on a tree that can lose a file between two calls; each call runs
\* from start to end.
\* ------------------------------------------------------------------------
\* Most calls of scan() on the object.
MaxScans == 2

RescanStates == MatchStates \cup {RegularFile(<<>>)}

\* The sub-directory settings a run can have.
SettingsChoices ==
    {DefaultSettings, NewSettings(TRUE, {WalkDirs[2]}, TRUE, {WalkDirs[2]})}

\* The part of do_compare's state a scan does not use.
RescanMatchIdle ==
    /\ source = NewScanDirectory(WalkDirs[1], TRUE, TRUE, FALSE, PatternsNone, TRUE, TRUE, FALSE)
    /\ target = NewScanDirectory(WalkDirs[1], TRUE, TRUE, FALSE, PatternsNone, TRUE, FALSE, FALSE)
    /\ options = [sourceDir |-> WalkDirs[1], targetDir |-> WalkDirs[1]]
    /\ many_dupes = FALSE
    /\ match_pc = "idle"
    /\ counter = 0
    /\ visited_files = <<>>
    /\ suppressed = <<>>
    /\ results_log = <<>>
    /\ compare_calls = <<>>
    /\ exit_errors = <<>>
    /\ changes = 0

InitRescan ==
    /\ fs \in [MatchPaths -> RescanStates]
    /\ listing \in Listings
    /\ settings \in SettingsChoices
    /\ \E sd \in {WalkDirs[i] : i \in 1 .. Len(WalkDirs)}, lp, sz, src \in BOOLEAN :
           scan_obj = NewScanDirectory(sd, TRUE, TRUE, lp,
                                       IF lp THEN PatternsList({ExtJPG}) ELSE PatternsNone,
                                       sz, src, FALSE)
    /\ scan_pc = "new"
    /\ checked_counter = 0
    /\ actual_counter = 0
    /\ walked = <<>>
    /\ debug_log = <<>>
    /\ getsize_calls = <<>>
    /\ scans = 0
    /\ errors_log = <<>>
    /\ CmpIdle
    /\ RescanMatchIdle
    /\ AuxIdle

\* The os.path.getsize calls of one scan(): one for each walked file the
\* first three tests let through.
SizedFiles(obj, files) ==
    LET sized(f) == ScanFile(obj, 0, 0, f).sized
        kept == SelectSeq(files, sized)
    IN  [i \in 1 .. Len(kept) |->
            [path |-> PathJoin(kept[i].root, kept[i].file_name), stat |-> kept[i].stat]]

\* scan_obj.scan(), lines 57-189, from its first line to its last.
Rescan ==
    /\ scan_pc \in {"new", "done"}
    /\ scans < MaxScans
    /\ LET files == OsWalk(fs, listing, scan_obj.scan_dir)
           counters == ScanCounters(scan_obj, 0, 0, files)
       IN  /\ scan_obj' = scan(scan_obj, fs, listing)
           /\ checked_counter' = counters.checked_counter
           /\ actual_counter' = counters.actual_counter
           /\ walked' = [i \in 1 .. Len(files) |-> PathJoin(files[i].root, files[i].file_name)]
           /\ getsize_calls' = SizedFiles(scan_obj, files)
    /\ scans' = scans + 1
    /\ scan_pc' = "done"
    /\ UNCHANGED <<debug_log, errors_log>>
    /\ UNCHANGED <<cmp_vars, match_vars, aux_vars>>

\* Between two calls of scan() a file of the tree is removed.
RescanTreeChanges ==
    /\ scan_pc = "done"
    /\ scans < MaxScans
    /\ changes < MaxChanges
    /\ \E p \in MatchPaths :
        /\ fs[p].kind = "file"
        /\ fs' = [fs EXCEPT ![p] = Missing]
    /\ changes' = changes + 1
    /\ UNCHANGED <<listing, source, target, options, many_dupes, settings, match_pc,
                   counter, visited_files, suppressed, results_log, compare_calls,
                   exit_errors>>
    /\ UNCHANGED <<cmp_vars, scan_vars, aux_vars>>

NextRescan ==
    \/ Rescan
    \/ RescanTreeChanges

SpecRescan == InitRescan /\ [][NextRescan]_vars

\* ------------------------------------------------------------------------
\* SpecBuild: the two ScanDirectory(...) calls of __main__, each applied to
\* the attributes of a Settings object.
\* ------------------------------------------------------------------------
\* The values the driver handles, each written as Python prints it.
PyBools == {"True", "False"}

\* The language resources object.
ResourcesObj == "resources_obj"

\* The parameters of ScanDirectory.__init__ after self, in order.
InitParams == <<"scan_dir", "resources_obj", "skip_hidden", "skip_dsstore", "limit_to_patterns", "patterns", "skip_zero_len", "type_is_source", "debug_obj">>

\* The default of each parameter that has one.
InitDefaults == [skip_hidden |-> "True", skip_dsstore |-> "True", limit_to_patterns |-> "False", patterns |-> "None", skip_zero_len |-> "True", type_is_source |-> "True", debug_obj |-> "None"]

\* A call with positional arguments only: the i-th argument is bound to the
\* i-th parameter, a parameter without argument takes its default.
BindPositional(args) ==
    [p \in {InitParams[i] : i \in 1 .. Len(InitParams)} |->
        LET index == CHOOSE i \in 1 .. Len(InitParams) : InitParams[i] = p
        IN  IF index <= Len(args) THEN args[index] ELSE InitDefaults[p]]

\* ScanDirectory.__init__ on positional arguments: the attributes are bound,
\* then resources_obj.get is called, which only the resources object has.
ScanDirectoryInit(args) ==
    LET self == BindPositional(args)
    IN  IF self.resources_obj = ResourcesObj
        THEN [state |-> "built", self |-> self, type |-> IF self.type_is_source = "True" THEN "Source" ELSE "Target"]
        ELSE [state |-> "raised", self |-> self, type |-> "unset"]

\* The arguments of the call that builds the source list.
SourceCallArgs(st) ==
    <<st.source_dir, st.skip_hidden, st.skip_dsstore, st.limit_to_patterns, st.pattern_list, st.skip_zero_len, ResourcesObj, "True">>

\* The arguments of the call that builds the target list.
TargetCallArgs(st) ==
    <<st.target_dir, st.skip_hidden, st.skip_dsstore, st.limit_to_patterns, st.pattern_list, st.skip_zero_len, ResourcesObj, "True">>

\* The Settings attributes the two calls read.
BuildSettings ==
    [source_dir : {WalkDirs[1], WalkDirs[2]}, target_dir : {WalkDirs[1], WalkDirs[2]}, skip_hidden : PyBools, skip_dsstore : PyBools, limit_to_patterns : PyBools, pattern_list : {"None", "JPG"}, skip_zero_len : PyBools]

InitBuild ==
    /\ build_settings \in BuildSettings
    /\ source_obj = [state |-> "none"]
    /\ target_obj = [state |-> "none"]
    /\ MainIdle
    /\ DebugIdle
    /\ WizardIdle
    /\ UiIdle
    /\ CmpIdle
    /\ ScanIdle
    /\ MatchIdle

BuildSource ==
    /\ source_obj.state = "none"
    /\ source_obj' = ScanDirectoryInit(SourceCallArgs(build_settings))
    /\ UNCHANGED <<build_settings, target_obj>>
    /\ UNCHANGED <<cmp_vars, scan_vars, match_vars, main_vars, dbg_vars, wiz_vars, ui_vars>>

BuildTarget ==
    /\ target_obj.state = "none"
    /\ target_obj' = ScanDirectoryInit(TargetCallArgs(build_settings))
    /\ UNCHANGED <<build_settings, source_obj>>
    /\ UNCHANGED <<cmp_vars, scan_vars, match_vars, main_vars, dbg_vars, wiz_vars, ui_vars>>

NextBuild ==
    \/ BuildSource
    \/ BuildTarget

SpecBuild == InitBuild /\ [][NextBuild]_vars

\* ------------------------------------------------------------------------
\* SpecMain: one run of the program, from the command line to the end of
\* __main__.
\* ------------------------------------------------------------------------
\* Most boolean options given on one command line.
MaxFlags == 2
\* Most positional arguments on one command line.
MaxArgs == 3

\* OPTIONS_SETTINGS: the action and the default of each destination.
OPTIONS_SETTINGS ==
    [interactive          |-> [action |-> "store_true",  default |-> "False"],
     language             |-> [action |-> "store",       default |-> "english"],
     use_preset           |-> [action |-> "store_true",  default |-> "False"],
     save_preset          |-> [action |-> "store_true",  default |-> "False"],
     compare_two_files    |-> [action |-> "store_true",  default |-> "False"],
     source_dir           |-> [action |-> "store",       default |-> "~"],
     skip_source_sub_dirs |-> [action |-> "store_false", default |-> "False"],
     source_dirs_to_skip  |-> [action |-> "store",       default |-> "None"],
     target_dir           |-> [action |-> "store",       default |-> "~"],
     skip_target_sub_dirs |-> [action |-> "store_false", default |-> "False"],
     target_dirs_to_skip  |-> [action |-> "store",       default |-> "None"],
     log_file             |-> [action |-> "store",       default |-> "~/compareFiles.duplicates"],
     overwrite_log        |-> [action |-> "store_false", default |-> "True"],
     limit_to_patterns    |-> [action |-> "store_false", default |-> "False"],
     pattern_list         |-> [action |-> "store",       default |-> "None"],
     skip_zero_len        |-> [action |-> "store_true",  default |-> "True"],
     skip_hidden          |-> [action |-> "store_true",  default |-> "False"],
     skip_dsstore         |-> [action |-> "store_true",  default |-> "True"],
     skip_links           |-> [action |-> "store_true",  default |-> "True"],
     follow_links         |-> [action |-> "store_false", default |-> "False"],
     many_dupes           |-> [action |-> "store_false", default |-> "False"],
     do_debug             |-> [action |-> "store_true",  default |-> "False"],
     debug_limit          |-> [action |-> "store",       default |-> "1000"]]

OptionNames == DOMAIN OPTIONS_SETTINGS

\* The options that take no value.
BoolOptions ==
    {o \in OptionNames : OPTIONS_SETTINGS[o].action \in {"store_true", "store_false"}}

\* optparse on one option: the default when the flag is absent, the
\* constant of its action when it is given.
ParseOption(o, given) ==
    IF ~given THEN OPTIONS_SETTINGS[o].default
    ELSE IF OPTIONS_SETTINGS[o].action = "store_true" THEN "True"
    ELSE IF OPTIONS_SETTINGS[o].action = "store_false" THEN "False"
    ELSE OPTIONS_SETTINGS[o].default

\* define_options: the values parser.parse_args() returns.
define_options(flags) == [o \in OptionNames |-> ParseOption(o, o \in flags)]

\* What a positional argument of a run can name.
MainFiles == {RegularFile(<<0>>), RegularFile(<<1>>), Directory, Missing}

\* len(sys.argv) after line 827: the program name and the positional
\* arguments.
Argc(rest) == 1 + Len(rest)

\* The outcome of a function of the driver: whether it called sys.exit and
\* with which status, and what it displayed.
Returned(errs, msgs) == [exited |-> FALSE, status |-> -1, errors |-> errs, messages |-> msgs]

Exited(st, errs, msgs) == [exited |-> TRUE, status |-> st, errors |-> errs, messages |-> msgs]

\* The error compare_two_files displays before it exits.
CompareError(fa, fb) ==
    LET arg == IF FailingArgument(fa, fb) = "a" THEN fa ELSE fb
    IN  IF arg.kind = "missing" THEN "file_does_not_exist" ELSE "file_is_dir"

\* verify_preset; overwrite is the answer overwrite_file_ui returns when the
\* preset exists.
verify_preset(o, rest, overwrite) ==
    IF o.save_preset = "True"
    THEN IF Argc(rest) # 2 THEN Exited(1, <<"incorrect_num_args">>, <<>>)
         ELSE IF rest[1].kind # "missing" /\ ~overwrite THEN Exited(0, <<>>, <<>>)
         ELSE Returned(<<>>, <<>>)
    ELSE Returned(<<>>, <<>>)

VerifyCompareMutantStatusByResult(o, rest) ==
    IF o.compare_two_files = "True"
    THEN IF Argc(rest) # 3 THEN Exited(1, <<"incorrect_num_comp_args">>, <<>>)
         ELSE IF compare_two_files(rest[1], rest[2], FALSE).exited
         THEN Exited(1, <<CompareError(rest[1], rest[2])>>, <<>>)
         ELSE IF compare_two_files(rest[1], rest[2], FALSE).value
         THEN Exited(0, <<>>, <<"files_match">>)
         ELSE Exited(1, <<>>, <<"files_do_not_match">>)
    ELSE Returned(<<>>, <<>>)

\* verify_compare
verify_compare(o, rest) ==
    IF o.compare_two_files = "True"
    THEN IF Argc(rest) # 3 THEN Exited(1, <<"incorrect_num_comp_args">>, <<>>)
         ELSE IF compare_two_files(rest[1], rest[2], FALSE).exited
         THEN Exited(1, <<CompareError(rest[1], rest[2])>>, <<>>)
         ELSE IF compare_two_files(rest[1], rest[2], FALSE).value
         THEN Exited(0, <<>>, <<"files_match">>)
         ELSE Exited(0, <<>>, <<"files_do_not_match">>)
    ELSE Returned(<<>>, <<>>)

\* The keys load_defaults_from_options copies.
DefaultKeys ==
    OptionNames \ {"interactive", "language", "use_preset", "save_preset", "compare_two_files"}

\* load_defaults_from_options
load_defaults_from_options(o) == [k \in DefaultKeys |-> o[k]]

\* The built-in defaults of an interactive run.
BuiltInDefaults == [k \in OptionNames |-> OPTIONS_SETTINGS[k].default]

\* Settings.__init__: the attributes taken from the defaults.
NewMainSettings(d) ==
    [source_dir |-> d.source_dir,
     skip_source |-> d.skip_source_sub_dirs,
     source_dirs_to_skip |-> d.source_dirs_to_skip,
     target_dir |-> d.target_dir,
     skip_target_sub_dirs |-> d.skip_target_sub_dirs,
     target_dirs_to_skip |-> d.target_dirs_to_skip,
     log_file |-> d.log_file,
     limit_to_patterns |-> d.limit_to_patterns,
     pattern_list |-> d.pattern_list,
     skip_zero_len |-> d.skip_zero_len,
     skip_hidden |-> d.skip_hidden,
     skip_dsstore |-> d.skip_dsstore,
     skip_links |-> d.skip_links,
     follow_links |-> d.follow_links,
     many_dupes |-> d.many_dupes,
     do_debug |-> d.do_debug,
     debug_limit |-> d.debug_limit]

CreateLogMutantGoesOn(creatable) ==
    IF ~creatable
    THEN [exited |-> FALSE, status |-> -1, errors |-> <<"cannot_create_log">>, messages |-> <<"creating_dup_log">>, written |-> <<>>]
    ELSE [exited |-> FALSE, status |-> -1, errors |-> <<>>, messages |-> <<"creating_dup_log">>, written |-> <<"log_file_header">>]

\* create_duplicates_log: written is what it writes to the file it opened.
create_duplicates_log(creatable) ==
    IF ~creatable
    THEN [exited |-> TRUE, status |-> 1, errors |-> <<"cannot_create_log">>, messages |-> <<"creating_dup_log">>, written |-> <<>>]
    ELSE [exited |-> FALSE, status |-> -1, errors |-> <<>>, messages |-> <<"creating_dup_log">>, written |-> <<"log_file_header">>]

InitMain ==
    /\ argv_flags \in {F \in SUBSET BoolOptions : Cardinality(F) <= MaxFlags}
    /\ argv_rest \in SeqsUpTo(MainFiles, MaxArgs)
    /\ log_creatable \in BOOLEAN
    /\ main_pc = "start"
    /\ opts = <<>>
    /\ defaults = <<>>
    /\ main_settings = <<>>
    /\ exit_status = -1
    /\ exit_point = "none"
    /\ main_errors = <<>>
    /\ main_messages = <<>>
    /\ log_lines = <<>>
    /\ BuildIdle
    /\ DebugIdle
    /\ WizardIdle
    /\ UiIdle
    /\ CmpIdle
    /\ ScanIdle
    /\ MatchIdle

\* A call of a function of the driver that returns to __main__, which goes
\* on at next_pc, or exits the program.
MainStep(r, fn, next_pc) ==
    /\ main_errors' = main_errors \o r.errors
    /\ main_messages' = main_messages \o r.messages
    /\ exit_status' = r.status
    /\ exit_point' = IF r.exited THEN fn ELSE exit_point
    /\ main_pc' = IF r.exited THEN "exited" ELSE next_pc

\* Line 827.
DefineOptions ==
    /\ main_pc = "start"
    /\ opts' = define_options(argv_flags)
    /\ main_pc' = "verify_preset"
    /\ UNCHANGED <<argv_flags, argv_rest, log_creatable, defaults, main_settings, exit_status, exit_point, main_errors, main_messages, log_lines>>
    /\ UNCHANGED <<cmp_vars, scan_vars, match_vars, build_vars, dbg_vars, wiz_vars, ui_vars>>

\* Line 834.
VerifyPreset ==
    /\ main_pc = "verify_preset"
    /\ \E overwrite \in BOOLEAN :
        MainStep(verify_preset(opts, argv_rest, overwrite), "verify_preset", "verify_compare")
    /\ UNCHANGED <<argv_flags, argv_rest, log_creatable, opts, defaults, main_settings, log_lines>>
    /\ UNCHANGED <<cmp_vars, scan_vars, match_vars, build_vars, dbg_vars, wiz_vars, ui_vars>>

\* Line 837.
VerifyCompare ==
    /\ main_pc = "verify_compare"
    /\ MainStep(verify_compare(opts, argv_rest), "verify_compare", "load_defaults")
    /\ UNCHANGED <<argv_flags, argv_rest, log_creatable, opts, defaults, main_settings, log_lines>>
    /\ UNCHANGED <<cmp_vars, scan_vars, match_vars, build_vars, dbg_vars, wiz_vars, ui_vars>>

\* load_defaults_from_preset; complete says whether the file read holds a
\* presets section with every key.
load_defaults_from_preset(preset_file, complete) ==
    IF preset_file.kind = "missing" THEN [outcome |-> Exited(1, <<"file_does_not_exist">>, <<>>), raised |-> FALSE]
    ELSE IF preset_file.kind = "dir" THEN [outcome |-> Exited(1, <<"file_is_dir">>, <<>>), raised |-> FALSE]
    ELSE [outcome |-> Returned(<<>>, <<>>), raised |-> ~complete]

\* Lines 843-867 with the preset branch taken.
LoadPreset ==
    /\ main_pc = "load_defaults"
    /\ opts.use_preset = "True"
    /\ IF Argc(argv_rest) # 2
       THEN /\ MainStep(Exited(1, <<"incorrect_num_args">>, <<>>), "__main__", "settings")
            /\ UNCHANGED defaults
       ELSE \E complete \in BOOLEAN :
            LET r == load_defaults_from_preset(argv_rest[1], complete)
            IN  /\ MainStep(r.outcome, "load_defaults_from_preset", IF r.raised THEN "raised" ELSE "settings")
                /\ defaults' = IF r.outcome.exited \/ r.raised THEN defaults ELSE BuiltInDefaults
    /\ UNCHANGED <<argv_flags, argv_rest, log_creatable, opts, main_settings, log_lines>>
    /\ UNCHANGED <<cmp_vars, scan_vars, match_vars, build_vars, dbg_vars, wiz_vars, ui_vars>>

\* Lines 843-867 with the interactive branch taken.
LoadBuiltIn ==
    /\ main_pc = "load_defaults"
    /\ opts.use_preset # "True"
    /\ opts.interactive = "True"
    /\ IF Argc(argv_rest) # 1
       THEN /\ MainStep(Exited(1, <<"incorrect_num_args">>, <<>>), "__main__", "settings")
            /\ UNCHANGED defaults
       ELSE /\ MainStep(Returned(<<>>, <<>>), "__main__", "settings")
            /\ defaults' = BuiltInDefaults
    /\ UNCHANGED <<argv_flags, argv_rest, log_creatable, opts, main_settings, log_lines>>
    /\ UNCHANGED <<cmp_vars, scan_vars, match_vars, build_vars, dbg_vars, wiz_vars, ui_vars>>

\* Lines 843-867 with neither: the defaults are the command line's options.
LoadOptions ==
    /\ main_pc = "load_defaults"
    /\ opts.use_preset # "True"
    /\ opts.interactive # "True"
    /\ defaults' = load_defaults_from_options(opts)
    /\ main_pc' = "settings"
    /\ UNCHANGED <<argv_flags, argv_rest, log_creatable, opts, main_settings, exit_status, exit_point, main_errors, main_messages, log_lines>>
    /\ UNCHANGED <<cmp_vars, scan_vars, match_vars, build_vars, dbg_vars, wiz_vars, ui_vars>>

\* Line 870.
CreateSettings ==
    /\ main_pc = "settings"
    /\ main_settings' = NewMainSettings(defaults)
    /\ main_pc' = IF opts.interactive = "True" THEN "wizard" ELSE "create_log"
    /\ UNCHANGED <<argv_flags, argv_rest, log_creatable, opts, defaults, exit_status, exit_point, main_errors, main_messages, log_lines>>
    /\ UNCHANGED <<cmp_vars, scan_vars, match_vars, build_vars, dbg_vars, wiz_vars, ui_vars>>

\* Line 874: the wizard in basic mode, taken as one step.  The user quits
\* at a prompt, or answers all four; of the answers only many_dupes is kept
\* apart from the default it replaces.
RunWizard ==
    /\ main_pc = "wizard"
    /\ \/ /\ MainStep(Exited(0, <<>>, <<>>), "get_input", "create_log")
          /\ UNCHANGED main_settings
       \/ \E answer \in PyBools :
          /\ MainStep(Returned(<<>>, <<>>), "get_input", "create_log")
          /\ main_settings' = [main_settings EXCEPT !.many_dupes = answer]
    /\ UNCHANGED <<argv_flags, argv_rest, log_creatable, opts, defaults, log_lines>>
    /\ UNCHANGED <<cmp_vars, scan_vars, match_vars, build_vars, dbg_vars, wiz_vars, ui_vars>>

\* Line 877: the log is created; the file object returned is then unpacked
\* into two names, which raises.
CreateDuplicatesLog ==
    /\ main_pc = "create_log"
    /\ LET r == create_duplicates_log(log_creatable)
       IN  /\ MainStep(r, "create_duplicates_log", "raised")
           /\ log_lines' = log_lines \o r.written
    /\ UNCHANGED <<argv_flags, argv_rest, log_creatable, opts, defaults, main_settings>>
    /\ UNCHANGED <<cmp_vars, scan_vars, match_vars, build_vars, dbg_vars, wiz_vars, ui_vars>>

NextMain ==
    \/ DefineOptions
    \/ VerifyPreset
    \/ VerifyCompare
    \/ LoadPreset
    \/ LoadBuiltIn
    \/ LoadOptions
    \/ CreateSettings
    \/ RunWizard
    \/ CreateDuplicatesLog

SpecMain == InitMain /\ [][NextMain]_vars

\* ------------------------------------------------------------------------
\* SpecDebug: one Debug object and a sequence of calls of its debug method.
\* ------------------------------------------------------------------------
\* Largest max_count of a Debug object.
MaxCount == 2
\* Most debug() calls made on the object.
MaxCalls == 4

\* The values of max_count: None or a number.
NoLimit == [is_none |-> TRUE, value |-> 0]

Limit(n) == [is_none |-> FALSE, value |-> n]

\* Debug.__init__; the debug file is created empty when it will be used.
NewDebug(do_debug, max_count, exit_on_max_count, write_to_file, write_to_stdout, write_to_stderr) ==
    [do_debug |-> do_debug,
     max_count |-> max_count,
     exit_on_max_count |-> exit_on_max_count,
     write_to_file |-> write_to_file,
     write_to_stdout |-> write_to_stdout,
     write_to_stderr |-> write_to_stderr,
     count |-> 0]

WritesToFileMutantOffByOne(d) ==
    d.write_to_file /\ (d.max_count.is_none \/ d.count <= d.max_count.value)

\* Lines 76-77: whether this call appends its line to the debug file.
WritesToFile(d) ==
    d.write_to_file /\ (d.max_count.is_none \/ d.count < d.max_count.value)

ExitsMutantIgnoresFlag(d) ==
    ~d.max_count.is_none /\ d.count >= d.max_count.value

\* Lines 90-92, read after the count was incremented: whether the call ends
\* the process.
ExitsOnCount(d) ==
    d.exit_on_max_count /\ ~d.max_count.is_none /\ d.count >= d.max_count.value

InitDebug ==
    /\ \E do_debug \in BOOLEAN, max_count \in {NoLimit} \cup {Limit(n) : n \in 0 .. MaxCount}, exit_on_max_count \in BOOLEAN, write_to_file \in BOOLEAN, write_to_stdout \in BOOLEAN, write_to_stderr \in BOOLEAN :
        debug_obj = NewDebug(do_debug, max_count, exit_on_max_count, write_to_file, write_to_stdout, write_to_stderr)
    /\ dbg_pc = "running"
    /\ dbg_calls = 0
    /\ dbg_file = <<>>
    /\ dbg_stderr = <<>>
    /\ dbg_stdout = <<>>
    /\ MainIdle
    /\ BuildIdle
    /\ WizardIdle
    /\ UiIdle
    /\ CmpIdle
    /\ ScanIdle
    /\ MatchIdle

\* One call of debug() on an object that does no debugging: line 68-69.
DebugOff ==
    /\ dbg_pc = "running"
    /\ dbg_calls < MaxCalls
    /\ ~debug_obj.do_debug
    /\ dbg_calls' = dbg_calls + 1
    /\ UNCHANGED <<debug_obj, dbg_pc, dbg_file, dbg_stderr, dbg_stdout>>
    /\ UNCHANGED <<cmp_vars, scan_vars, match_vars, main_vars, build_vars, wiz_vars, ui_vars>>

\* One call of debug() on an object that does debugging: lines 71-95.
DebugCall ==
    /\ dbg_pc = "running"
    /\ dbg_calls < MaxCalls
    /\ debug_obj.do_debug
    /\ dbg_calls' = dbg_calls + 1
    /\ dbg_file' = IF WritesToFile(debug_obj) THEN Append(dbg_file, dbg_calls') ELSE dbg_file
    /\ dbg_stderr' = IF debug_obj.write_to_stderr THEN Append(dbg_stderr, dbg_calls') ELSE dbg_stderr
    /\ dbg_stdout' = IF debug_obj.write_to_stdout THEN Append(dbg_stdout, dbg_calls') ELSE dbg_stdout
    /\ debug_obj' = [debug_obj EXCEPT !.count = debug_obj.count + 1]
    /\ dbg_pc' = IF ExitsOnCount(debug_obj') THEN "exited" ELSE "running"
    /\ UNCHANGED <<cmp_vars, scan_vars, match_vars, main_vars, build_vars, wiz_vars, ui_vars>>

NextDebug ==
    \/ DebugOff
    \/ DebugCall

SpecDebug == InitDebug /\ [][NextDebug]_vars

\* ------------------------------------------------------------------------
\* SpecWizard: one run of Settings.run_wizard, prompt by prompt.
\* ------------------------------------------------------------------------
\* Settings.__init__: the number of steps.
StepCount(advanced) == IF advanced THEN 17 ELSE 4

\* The steps of run_wizard in the order of its code, each with the
\* attribute a yes/no answer is stored in ("none" when the answer is not a
\* yes/no attribute of the object), whether it is asked in advanced mode
\* only, and whether it is guarded by the yes/no answer before it.
WizardSteps ==
    <<[name |-> "source_dir",           attr |-> "none",          advanced_only |-> FALSE, guarded |-> FALSE],
      [name |-> "skip_source_sub_dirs", attr |-> "none",          advanced_only |-> TRUE,  guarded |-> FALSE],
      [name |-> "source_dirs_to_skip",  attr |-> "none",          advanced_only |-> TRUE,  guarded |-> TRUE],
      [name |-> "target_dir",           attr |-> "none",          advanced_only |-> FALSE, guarded |-> FALSE],
      [name |-> "skip_target_sub_dirs", attr |-> "none",          advanced_only |-> TRUE,  guarded |-> FALSE],
      [name |-> "target_dirs_to_skip",  attr |-> "none",          advanced_only |-> TRUE,  guarded |-> TRUE],
      [name |-> "log_file",             attr |-> "none",          advanced_only |-> FALSE, guarded |-> FALSE],
      [name |-> "limit_to_patterns",    attr |-> "none",          advanced_only |-> TRUE,  guarded |-> FALSE],
      [name |-> "pattern_list",         attr |-> "none",          advanced_only |-> TRUE,  guarded |-> TRUE],
      [name |-> "skip_zero_len",        attr |-> "skip_zero_len", advanced_only |-> TRUE,  guarded |-> FALSE],
      [name |-> "skip_hidden",          attr |-> "skip_hidden",   advanced_only |-> TRUE,  guarded |-> FALSE],
      [name |-> "skip_dsstore",         attr |-> "skip_dsstore",  advanced_only |-> TRUE,  guarded |-> FALSE],
      [name |-> "skip_links",           attr |-> "skip_links",    advanced_only |-> TRUE,  guarded |-> FALSE],
      [name |-> "follow_links",         attr |-> "follow_links",  advanced_only |-> TRUE,  guarded |-> FALSE],
      [name |-> "many_dupes",           attr |-> "many_dupes",    advanced_only |-> FALSE, guarded |-> FALSE],
      [name |-> "do_debug",             attr |-> "do_debug",      advanced_only |-> TRUE,  guarded |-> FALSE],
      [name |-> "debug_limit",          attr |-> "none",          advanced_only |-> TRUE,  guarded |-> TRUE]>>

\* The step run_wizard comes to after step number i of WizardSteps (0 at
\* its start), or "done".
RECURSIVE StepAfter(_, _)
StepAfter(i, advanced) ==
    IF i >= Len(WizardSteps) THEN "done"
    ELSE IF WizardSteps[i + 1].advanced_only /\ ~advanced THEN StepAfter(i + 1, advanced)
    ELSE WizardSteps[i + 1].name

StepIndex(name) == CHOOSE i \in 1 .. Len(WizardSteps) : WizardSteps[i].name = name

\* The yes/no attributes of a Settings object built from the built-in
\* defaults.
WizardDefaults ==
    [skip_zero_len |-> TRUE, skip_hidden |-> FALSE, skip_dsstore |-> TRUE, skip_links |-> TRUE, follow_links |-> FALSE, many_dupes |-> FALSE, do_debug |-> FALSE]

SkipStepMutantKeepsNumber(step) == step

\* The else branches of run_wizard: current_step += 1 before the skip
\* message.
SkipStep(step) == step + 1

InitWizard ==
    /\ wiz_advanced \in BOOLEAN
    /\ wiz_pc = StepAfter(0, wiz_advanced)
    /\ current_step = 0
    /\ steps_shown = <<>>
    /\ wiz_answer = FALSE
    /\ wiz_settings = WizardDefaults
    /\ MainIdle
    /\ BuildIdle
    /\ DebugIdle
    /\ UiIdle
    /\ CmpIdle
    /\ ScanIdle
    /\ MatchIdle

\* The step at wiz_pc is one that prompts: it is not guarded, or the answer
\* that guards it was yes.
AtPrompt ==
    /\ wiz_pc \notin {"idle", "done", "exited", "raised"}
    /\ WizardSteps[StepIndex(wiz_pc)].guarded => wiz_answer

\* A prompt other than the debug limit: current_step += 1, the UI object
\* shows the step and get_input either returns an answer or the user quits.
WizardPrompt ==
    /\ AtPrompt
    /\ wiz_pc # "debug_limit"
    /\ current_step' = current_step + 1
    /\ steps_shown' = Append(steps_shown, current_step')
    /\ \/ /\ wiz_pc' = "exited"
          /\ UNCHANGED <<wiz_answer, wiz_settings>>
       \/ \E answer \in BOOLEAN :
          LET step == WizardSteps[StepIndex(wiz_pc)]
          IN  /\ wiz_answer' = answer
              /\ wiz_settings' = IF step.attr = "none" THEN wiz_settings ELSE [wiz_settings EXCEPT ![step.attr] = answer]
              /\ wiz_pc' = StepAfter(StepIndex(wiz_pc), wiz_advanced)
    /\ UNCHANGED wiz_advanced
    /\ UNCHANGED <<cmp_vars, scan_vars, match_vars, main_vars, build_vars, dbg_vars, ui_vars>>

\* The debug limit prompt (an IntUI): the step is shown; the user quits, or
\* answers and echo_back raises on the integer stored.
WizardDebugLimit ==
    /\ AtPrompt
    /\ wiz_pc = "debug_limit"
    /\ current_step' = current_step + 1
    /\ steps_shown' = Append(steps_shown, current_step')
    /\ wiz_pc' \in {"exited", "raised"}
    /\ UNCHANGED <<wiz_advanced, wiz_answer, wiz_settings>>
    /\ UNCHANGED <<cmp_vars, scan_vars, match_vars, main_vars, build_vars, dbg_vars, ui_vars>>

\* A guarded step whose guard was answered no: the skip message shows the
\* step number.
WizardSkip ==
    /\ wiz_pc \notin {"idle", "done", "exited", "raised"}
    /\ WizardSteps[StepIndex(wiz_pc)].guarded
    /\ ~wiz_answer
    /\ current_step' = SkipStep(current_step)
    /\ steps_shown' = Append(steps_shown, current_step')
    /\ wiz_pc' = StepAfter(StepIndex(wiz_pc), wiz_advanced)
    /\ UNCHANGED <<wiz_advanced, wiz_answer, wiz_settings>>
    /\ UNCHANGED <<cmp_vars, scan_vars, match_vars, main_vars, build_vars, dbg_vars, ui_vars>>

NextWizard ==
    \/ WizardPrompt
    \/ WizardDebugLimit
    \/ WizardSkip

SpecWizard == InitWizard /\ [][NextWizard]_vars

\* ------------------------------------------------------------------------
\* SpecUI: one call of get_input on a single-item UI object, one pass of
\* its loop per step.
\* ------------------------------------------------------------------------
\* Most responses typed at the prompt of one call.
MaxPrompts == 2

\* Python values: a type and, as val, the text str() gives.
PyStr(str) == [type |-> "str", val |-> str]

PyNone == [type |-> "NoneType", val |-> <<"N", "o", "n", "e">>]

PyBool(b) == [type |-> "bool", val |-> IF b THEN <<"T", "r", "u", "e">> ELSE <<"F", "a", "l", "s", "e">>]

PyInt(digits) == [type |-> "int", val |-> digits]

\* The paths of the responses: a directory, a file, a new name in the
\* directory and a name in a directory that does not exist.
UiDir == <<"/", "a">>
UiFile == <<"/", "b">>
UiNewFile == <<"/", "a", "/", "c">>
UiNoParent == <<"/", "e", "/", "c">>

\* What the user can type at a prompt.
UiResponses ==
    {<<>>, <<"q">>, <<"y">>, <<"x">>, <<"7">>, <<" ", "7">>, UiDir, <<" ">> \o UiDir, UiFile, UiNewFile, UiNoParent}

\* The entries legal_quit_characters and legal_affirmatives of the
\* language resources.
LegalQuitChars == {<<"Q">>}

LegalAffirmatives == {<<"Y">>}

\* str.strip()
RECURSIVE Strip(_)
Strip(str) ==
    IF str # <<>> /\ str[1] = " " THEN Strip(Tail(str))
    ELSE IF str # <<>> /\ str[Len(str)] = " " THEN Strip(SubSeq(str, 1, Len(str) - 1))
    ELSE str

\* str.replace("//", "/")
RECURSIVE ReplaceDoubleSlash(_)
ReplaceDoubleSlash(str) ==
    IF Len(str) < 2 THEN str
    ELSE IF str[1] = "/" /\ str[2] = "/" THEN <<"/">> \o ReplaceDoubleSlash(SubSeq(str, 3, Len(str)))
    ELSE <<str[1]>> \o ReplaceDoubleSlash(Tail(str))

NotBackslash(c) == c # "\\"

\* os.path.abspath(os.path.expanduser(path)), the working directory being
\* UiDir: a path from the root is unchanged, any other is taken from the
\* working directory.
AbsPath(path) ==
    IF path = <<>> THEN UiDir
    ELSE IF path[1] = "/" THEN path
    ELSE UiDir \o <<"/">> \o path

\* os.path.exists and os.path.isdir
PathExists(path) == path \in {<<"/">>, UiDir, UiFile}

PathIsDir(path) == path \in {<<"/">>, UiDir}

\* os.path.split(path)[0]: the path up to its last slash, the root for a
\* name directly under it.
SplitHead(path) ==
    LET slashes == {i \in 1 .. Len(path) : path[i] = "/"}
        last == IF slashes = {} THEN 0 ELSE CHOOSE i \in slashes : \A j \in slashes : j <= i
    IN  IF last <= 1 THEN SubSeq(path, 1, last) ELSE SubSeq(path, 1, last - 1)

\* int(x): the value, or the exception raised.
IntOf(x) ==
    IF x.type = "int" THEN [error |-> "none", value |-> x]
    ELSE IF x.type = "bool" THEN [error |-> "none", value |-> PyInt(IF x = PyBool(TRUE) THEN <<"1">> ELSE <<"0">>)]
    ELSE IF x.type = "NoneType" THEN [error |-> "TypeError", value |-> PyNone]
    ELSE IF Strip(x.val) # <<>> /\ \A i \in 1 .. Len(Strip(x.val)) : Strip(x.val)[i] \in {"0", "1", "2", "3", "4", "5", "6", "7", "8", "9"}
    THEN [error |-> "none", value |-> PyInt(Strip(x.val))]
    ELSE [error |-> "ValueError", value |-> PyNone]

\* The outcome of a method that can raise.
Value(v) == [raised |-> FALSE, value |-> v]

Raises == [raised |-> TRUE, value |-> PyNone]

\* IntUI.format_response
IntFormatResponse(response) ==
    IF IntOf(response).error = "none" THEN Value(IntOf(response).value)
    ELSE IF IntOf(response).error = "ValueError" THEN Value(PyNone)
    ELSE Raises

\* format_response of each class; str methods exist on a str only.
format_response(cls, response) ==
    IF cls \in {"UI", "FileType"} THEN Value(response)
    ELSE IF cls = "IntUI" THEN IntFormatResponse(response)
    ELSE IF cls = "TrueFalseUI"
    THEN IF response.type = "bool" THEN Value(response)
         ELSE IF response.type # "str" THEN Raises
         ELSE Value(PyBool(StrUpper(response.val) \in LegalAffirmatives))
    ELSE IF response.type # "str" THEN Raises
    ELSE IF cls = "DirUI" THEN Value(PyStr(AbsPath(ReplaceDoubleSlash(Strip(response.val)))))
    ELSE IF cls = "FileInUI"
    THEN IF Strip(response.val) = <<>> THEN Value(PyStr(<<>>))
         ELSE Value(PyStr(AbsPath(ReplaceDoubleSlash(Strip(response.val)))))
    ELSE Value(PyStr(AbsPath(SelectSeq(Strip(response.val), NotBackslash))))

\* The characters FileType.validate_response accepts.
LegalTypeChars ==
    {"a", "b", "c", "d", "e", "f", "g", "h", "i", "j", "k", "l", "m", "n", "o", "p", "q", "r", "s", "t", "u", "v", "w", "x", "y", "z", "A", "B", "C", "D", "E", "F", "G", "H", "I", "J", "K", "L", "M", "N", "O", "P", "Q", "R", "S", "T", "U", "V", "W", "X", "Y", "Z", "."}

\* validate_response of each class: "valid", "invalid", "raised", or
\* "exited" when FileOutUI's overwrite question is answered with a quit
\* character.  overwrite is the answer to that question.
validate_response(cls, response, overwrite) ==
    IF cls = "UI" THEN "valid"
    ELSE IF cls = "FileType"
    THEN LET checked == PyBool(TRUE)
         IN  IF \A i \in 1 .. Len(checked.val) : checked.val[i] \in LegalTypeChars THEN "valid" ELSE "invalid"
    ELSE IF cls = "TrueFalseUI" THEN IF response.type = "bool" THEN "valid" ELSE "invalid"
    ELSE IF cls = "IntUI"
    THEN IF IntOf(response).error = "none" THEN "valid"
         ELSE IF IntOf(response).error = "ValueError" THEN "invalid"
         ELSE "raised"
    ELSE IF cls = "DirUI"
    THEN IF ~PathExists(response.val) THEN "invalid"
         ELSE IF ~PathIsDir(response.val) THEN "invalid"
         ELSE "valid"
    ELSE IF cls = "FileInUI"
    THEN IF ~PathExists(response.val) \/ response.val = <<>> THEN "invalid"
         ELSE IF PathIsDir(response.val) THEN "invalid"
         ELSE "valid"
    ELSE IF PathExists(response.val)
    THEN IF StrUpper(overwrite) \in LegalAffirmatives /\ overwrite # <<>> THEN "valid"
         ELSE IF StrUpper(overwrite) \in LegalQuitChars THEN "exited"
         ELSE "invalid"
    ELSE IF ~PathIsDir(SplitHead(response.val)) THEN "invalid"
    ELSE "valid"

\* echo_back concatenates the values to a str, except in TrueFalseUI.
EchoBackRaises(cls, values) ==
    cls # "TrueFalseUI" /\ \E i \in 1 .. Len(values) : values[i].type # "str"

\* One pass of the loop of get_input, lines 252-289, and, when the loop
\* ends, line 292.
GetInputPass(cls, default, values, response, overwrite) ==
    IF StrUpper(response) \in LegalQuitChars THEN [pc |-> "exited", values |-> values]
    ELSE LET given == IF response = <<>> THEN default ELSE PyStr(response)
             formatted == format_response(cls, given)
         IN  IF formatted.raised THEN [pc |-> "raised", values |-> values]
             ELSE LET valid == validate_response(cls, formatted.value, overwrite)
                      stored == Append(values, formatted.value)
                  IN  IF valid \in {"raised", "exited"} THEN [pc |-> valid, values |-> values]
                      ELSE IF valid = "invalid" THEN [pc |-> "prompt", values |-> values]
                      ELSE IF formatted.value = PyNone THEN [pc |-> "prompt", values |-> stored]
                      ELSE IF EchoBackRaises(cls, stored) THEN [pc |-> "raised", values |-> stored]
                      ELSE [pc |-> "returned", values |-> stored]

InitUI ==
    /\ ui_class \in {"UI", "DirUI", "FileInUI", "FileOutUI", "TrueFalseUI", "FileType", "IntUI"}
    /\ default_value \in {PyNone, PyStr(UiDir), PyBool(FALSE), PyInt(<<"7">>)}
    /\ ui_values = <<>>
    /\ ui_pc = "prompt"
    /\ ui_inputs = <<>>
    /\ MainIdle
    /\ BuildIdle
    /\ DebugIdle
    /\ WizardIdle
    /\ CmpIdle
    /\ ScanIdle
    /\ MatchIdle

\* The user types a response and the loop makes one pass.
UiInput ==
    /\ ui_pc = "prompt"
    /\ Len(ui_inputs) < MaxPrompts
    /\ \E response \in UiResponses, overwrite \in {<<"y">>, <<"q">>, <<"x">>} :
        LET pass == GetInputPass(ui_class, default_value, ui_values, response, overwrite)
        IN  /\ ui_inputs' = Append(ui_inputs, response)
            /\ ui_values' = pass.values
            /\ ui_pc' = pass.pc
    /\ UNCHANGED <<ui_class, default_value>>
    /\ UNCHANGED <<cmp_vars, scan_vars, match_vars, main_vars, build_vars, dbg_vars, wiz_vars>>

NextUI == UiInput

SpecUI == InitUI /\ [][NextUI]_vars

\* ------------------------------------------------------------------------
\* Properties of compare_two_files (checked under SpecCompare).
\* ------------------------------------------------------------------------
\* What the other value of single_pass would have returned on the same files.
OtherModeResult ==
    IF compare_two_files(file_a, file_b, ~single_pass).value THEN "True" ELSE "False"

PrefixDigestsEqual == Md5(ReadPrefix(file_a.content)) = Md5(ReadPrefix(file_b.content))

FullDigestsEqual == Md5(file_a.content) = Md5(file_b.content)

\* C1 as stated: compare_two_files returns true if and only if the two
\* contents are identical, gives the same answer for both values of
\* single_pass, and on the two-pass path reports two files unequal that share
\* their first num_bytes bytes and differ later.
C1_TrueIffIdentical ==
    cmp_pc = "returned" =>
        /\ (cmp_result = "True") <=> (file_a.content = file_b.content)
        /\ cmp_result = OtherModeResult

\* C1 as amended: compare_two_files returns true exactly when the digests of
\* the full contents are equal and, with single_pass false, the digests of
\* the first num_bytes bytes are equal too.  Identical contents are reported
\* equal, contents with different full digests are reported unequal, and the
\* two values of single_pass disagree only on files whose full digests are
\* equal while their prefix digests differ.
C1_TrueIffDigestsEqual ==
    cmp_pc = "returned" =>
        /\ (cmp_result = "True") <=> (FullDigestsEqual /\ (single_pass \/ PrefixDigestsEqual))
        /\ (file_a.content = file_b.content) => cmp_result = "True"
        /\ ~FullDigestsEqual => (cmp_result = "False" /\ OtherModeResult = "False")
        /\ (cmp_result # OtherModeResult) => (FullDigestsEqual /\ ~PrefixDigestsEqual)

\* C1's case: the two-pass path has returned on two different files that
\* share their first block, and has found them unequal.
C1_Witness ==
    /\ cmp_pc = "returned"
    /\ ~single_pass
    /\ file_a.content # file_b.content
    /\ ReadPrefix(file_a.content) = ReadPrefix(file_b.content)
    /\ hash_calls = <<"partial", "full">>
    /\ cmp_result = "False"

\* ------------------------------------------------------------------------
\* Properties of ScanDirectory.scan (checked under SpecScan).
\* ------------------------------------------------------------------------
\* The files an index holds, as [path, size], whichever way it is keyed.
RECURSIVE BucketEntries(_)
BucketEntries(items) ==
    IF items = <<>> THEN {}
    ELSE {[path |-> e[1], size |-> e[2]] :
              e \in {items[1].value[i] : i \in 1 .. Len(items[1].value)}}
         \cup BucketEntries(Tail(items))

IndexEntries(obj) ==
    IF obj.type_is_source
    THEN {[path |-> obj.items[i].key, size |-> obj.items[i].value[2]] :
              i \in 1 .. Len(obj.items)}
    ELSE BucketEntries(obj.items)

IndexPaths(obj) == {e.path : e \in IndexEntries(obj)}

FileName(path) == path[2]

\* The getsize call made for a path, if any.
WasSized(path) == \E j \in 1 .. Len(getsize_calls) : getsize_calls[j].path = path

StatSeen(path) ==
    getsize_calls[CHOOSE j \in 1 .. Len(getsize_calls) : getsize_calls[j].path = path].stat

\* C7: with skip_zero_len true every file in the index has size >= 1; a
\* zero-length file is in neither kind of index and raises nothing.
C7_NoZeroLengthInIndex ==
    scan_obj.skip_zero_len =>
        /\ \A e \in IndexEntries(scan_obj) : e.size >= 1
        /\ \A j \in 1 .. Len(getsize_calls) :
               getsize_calls[j].stat = StatOk(0) =>
                   /\ getsize_calls[j].path \notin IndexPaths(scan_obj)
                   /\ (j = Len(getsize_calls) => scan_pc # "raised")

\* C7's case: a finished scan with skip_zero_len that met a zero-length file
\* and accepted another file.
C7_Witness ==
    /\ scan_pc = "done"
    /\ scan_obj.skip_zero_len
    /\ \E j \in 1 .. Len(getsize_calls) : getsize_calls[j].stat = StatOk(0)
    /\ IndexEntries(scan_obj) # {}

\* C8: with limit_to_patterns true and a pattern set P, every file in the
\* index has an extension whose upper-cased, dot-stripped form is in P.
C8_IndexedExtensionsInPatterns ==
    (scan_obj.limit_to_patterns /\ ~scan_obj.patterns.is_none) =>
        \A path \in IndexPaths(scan_obj) :
            Ext(FileName(path)) \in scan_obj.patterns.list

\* C8's case: a finished scan limited to patterns that accepted one file
\* and turned another away for its extension.
C8_Witness ==
    /\ scan_pc = "done"
    /\ scan_obj.limit_to_patterns
    /\ ~scan_obj.patterns.is_none
    /\ IndexPaths(scan_obj) # {}
    /\ \E i \in 1 .. Len(walked) :
           /\ ~WasSized(walked[i])
           /\ ~IsHiddenSkip(scan_obj, [file_name |-> FileName(walked[i])])
           /\ ~IsDsStoreSkip(scan_obj, [file_name |-> FileName(walked[i])])

HasNoExtension(file_name) == SplitExt(file_name) = <<>>

\* C9 as stated: whenever limit_to_patterns is true, a file whose name has no
\* extension is not in the index, whatever patterns is (None included).
C9_NoExtensionExcluded ==
    scan_obj.limit_to_patterns =>
        \A path \in IndexPaths(scan_obj) : ~HasNoExtension(FileName(path))

\* C9 as amended: whenever limit_to_patterns is true and patterns is a list
\* (not None) that does not hold the empty string, a file whose name has no
\* extension is not in the index.
C9_NoExtensionExcludedByList ==
    (/\ scan_obj.limit_to_patterns
     /\ ~scan_obj.patterns.is_none
     /\ <<>> \notin scan_obj.patterns.list) =>
        \A path \in IndexPaths(scan_obj) : ~HasNoExtension(FileName(path))

\* C9's case: a finished scan limited to a list of patterns that examined a
\* file without extension which no earlier test turned away.
C9_Witness ==
    /\ scan_pc = "done"
    /\ scan_obj.limit_to_patterns
    /\ ~scan_obj.patterns.is_none
    /\ <<>> \notin scan_obj.patterns.list
    /\ \E i \in 1 .. Len(walked) :
           /\ HasNoExtension(FileName(walked[i]))
           /\ ~IsHiddenSkip(scan_obj, [file_name |-> FileName(walked[i])])
           /\ ~IsDsStoreSkip(scan_obj, [file_name |-> FileName(walked[i])])
    /\ IndexPaths(scan_obj) # {}

\* The exclusion tests in the order the scanner is said to apply them, and
\* the reason each one records.
TestOrder == <<"hidden", "special", "pattern", "size", "zero">>

SkipMessages == <<"file is hidden. skipping.",
                  "file is .DSStore. skipping.",
                  "ext is wrong type. skipping.",
                  "Cannot read size. skipping.",
                  "file is zero length. skipping.">>

AddMessages == {"adding file by name.", "adding file by size.", "APPENDING file by size."}

TestExcludes(test, obj, f) ==
    CASE test = "hidden" -> IsHiddenSkip(obj, f)
      [] test = "special" -> IsDsStoreSkip(obj, f)
      [] test = "pattern" -> IsPatternSkip(obj, f)
      [] test = "size" -> f.stat.error # "none"
      [] test = "zero" -> IsZeroLenSkip(obj, f)

\* Index in TestOrder of the first test that excludes f; 0 when none does.
FirstExcluding(obj, f) ==
    LET failing == {k \in 1 .. Len(TestOrder) : TestExcludes(TestOrder[k], obj, f)}
    IN  IF failing = {} THEN 0 ELSE CHOOSE k \in failing : \A m \in failing : k <= m

\* The file os.walk yielded i-th, with the stat its getsize call returned
\* (any stat if getsize was not called: the first three tests ignore it).
WalkedFile(i) ==
    [root |-> walked[i][1],
     file_name |-> walked[i][2],
     stat |-> IF WasSized(walked[i]) THEN StatSeen(walked[i]) ELSE StatOk(1)]

Accepted == {i \in 1 .. Len(walked) : FirstExcluding(scan_obj, WalkedFile(i)) = 0}

\* C10: the tests are applied in the order hidden, special marker, pattern,
\* unreadable size, zero length, and the first that excludes the file ends
\* its treatment: the reason recorded is that test's, the size is read only
\* when the first three tests let the file through, and the file neither
\* counts as accepted nor enters the index.
C10_FirstExclusionWins ==
    /\ \A i \in 1 .. Len(walked) :
           LET f == WalkedFile(i)
               k == FirstExcluding(scan_obj, f)
           IN  /\ WasSized(walked[i]) <=> (k = 0 \/ k >= 4)
               /\ (scan_obj.has_debug /\ k > 0 /\ f.stat.error # "OSError") =>
                      debug_log[i].message = SkipMessages[k]
               /\ (scan_obj.has_debug /\ k = 0) => debug_log[i].message \in AddMessages
               /\ k > 0 => walked[i] \notin IndexPaths(scan_obj)
    /\ actual_counter = Cardinality(Accepted)
    /\ IndexPaths(scan_obj) = {walked[i] : i \in Accepted}

\* C10's case: a finished scan with every filter on and a debug object, in
\* which a file that two tests exclude (.DS_Store: hidden and special marker)
\* and a file excluded by a later test were examined.
C10_Witness ==
    /\ scan_pc = "done"
    /\ scan_obj.has_debug
    /\ scan_obj.skip_hidden /\ scan_obj.skip_dsstore
    /\ scan_obj.limit_to_patterns /\ ~scan_obj.patterns.is_none
    /\ scan_obj.skip_zero_len
    /\ \E i, j \in 1 .. Len(walked) :
           /\ FileName(walked[i]) = DS_Store
           /\ debug_log[i].message = SkipMessages[1]
           /\ FirstExcluding(scan_obj, WalkedFile(j)) >= 3

\* ------------------------------------------------------------------------
\* Properties of do_compare (checked under Spec).
\* ------------------------------------------------------------------------
RunEnded == match_pc \in {"done", "exited"}

SameRoots == source.scan_dir = target.scan_dir

SourcePaths == DictKeys(source.items)

InSeq(x, seq) == \E i \in 1 .. Len(seq) : seq[i] = x

LoggedPaths == [i \in 1 .. Len(results_log) |-> results_log[i].path]

MatchedPaths(line) == {line.matches[i][1] : i \in 1 .. Len(line.matches)}

NotSuppressed(path) == ~InSeq(path, suppressed)

\* The source entries whose pass through the loop is complete: line 610
\* counts an entry before it is compared, so the entry an exit interrupted
\* is counted too.
Completed == IF match_pc = "exited" THEN counter - 1 ELSE counter

FlagsAgree ==
    \A i \in 1 .. Len(results_log) :
        (results_log[i].result = "DUPLICATE") <=> (results_log[i].matches # <<>>)

\* C2: when the run has ended, the log holds exactly one RESULT line for
\* every source entry the visited test did not skip, in the order of the
\* source index, each marked DUPLICATE exactly when its match list is not
\* empty.
C2_OneLinePerSourceEntry ==
    RunEnded =>
        /\ LoggedPaths = SelectSeq(SourcePaths, NotSuppressed)
        /\ FlagsAgree

\* What remains of C2 whatever the run meets: the lines written so far are
\* those of the unsuppressed entries among the first `counter` entries, in
\* order, and the whole index is covered when the loop runs to its end.
C2_LinesFollowSourceOrder ==
    /\ LoggedPaths = SelectSeq(SubSeq(SourcePaths, 1, Completed), NotSuppressed)
    /\ FlagsAgree
    /\ match_pc = "done" => counter = Len(SourcePaths)

\* A compare has exited on a vanished file and left source entries unreported.
C2_ExitedRun ==
    /\ match_pc = "exited"
    /\ results_log # <<>>
    /\ Len(results_log) + Len(suppressed) < Len(SourcePaths)

Mentions(line, path) == line.path = path \/ path \in MatchedPaths(line)

\* C3: the roots are equal, the tree did not change and the run went to its
\* end: for any two accepted files of identical content exactly one RESULT
\* line reports the two together, and one of the two has no line of its own.
C3_PairReportedOnce ==
    (match_pc = "done" /\ changes = 0 /\ SameRoots) =>
        \A a, b \in {SourcePaths[i] : i \in 1 .. Len(SourcePaths)} :
            (a # b /\ fs[a].content = fs[b].content) =>
                /\ Cardinality({i \in 1 .. Len(results_log) :
                                    Mentions(results_log[i], a)
                                    /\ Mentions(results_log[i], b)}) = 1
                /\ ~(InSeq(a, LoggedPaths) /\ InSeq(b, LoggedPaths))

\* C3 where the option directories agree with the scanned roots.
C3_PairReportedOnceWhenOptionsAgree ==
    (options.sourceDir = options.targetDir) => C3_PairReportedOnce

\* C4: every RESULT line written lists exactly the entries of the target
\* bucket of the source file's size whose path is not the source path and
\* which compare_two_files reports equal, in bucket order; without such a
\* bucket the list is empty and the line says UNIQUE.
C4_MatchesAreTheEqualBucketEntries ==
    [][Len(results_log') = Len(results_log) + 1 =>
          LET line == results_log'[Len(results_log')]
              keep(e) == /\ e[1] # line.path
                         /\ compare_two_files(fs[line.path], fs[e[1]], many_dupes).value
          IN  /\ line.matches = SelectSeq(PossibleMatches(line.size), keep)
              /\ ~DictHas(target.items, line.size) =>
                     (line.matches = <<>> /\ line.result = "UNIQUE")
              /\ line.matches = <<>> => line.result = "UNIQUE"]_vars

\* C4's case: a line whose bucket holds the source file itself, an entry
\* that compared equal and an entry that compared different, so that the
\* match list is a proper part of the bucket.
C4_Witness ==
    \E i \in 1 .. Len(results_log) :
        LET line == results_log[i]
            bucket == PossibleMatches(line.size)
        IN  /\ Len(bucket) = 3
            /\ Len(line.matches) = 1
            /\ \E k \in 1 .. 3 : bucket[k][1] = line.path

\* C5: compare_two_files is never called with one path as both arguments,
\* and no RESULT line lists its own source path among its matches.
C5_NeverComparedWithItself ==
    /\ \A i \in 1 .. Len(compare_calls) : compare_calls[i][1] # compare_calls[i][2]
    /\ \A i \in 1 .. Len(results_log) : results_log[i].path \notin MatchedPaths(results_log[i])

\* C5's case: equal roots, and a line written for a source file that is in
\* its own size bucket together with a file it was compared with.
C5_Witness ==
    /\ SameRoots
    /\ \E i \in 1 .. Len(results_log) :
           LET line == results_log[i]
               bucket == PossibleMatches(line.size)
           IN  /\ \E k \in 1 .. Len(bucket) : bucket[k][1] = line.path
               /\ \E k \in 1 .. Len(compare_calls) : compare_calls[k][1] = line.path

\* A path was recorded as a match by a line written so far.
RecordedAsMatch(path) ==
    \E i \in 1 .. Len(results_log) : path \in MatchedPaths(results_log[i])

\* C6: with different roots no source file is skipped by the visited test
\* and, when the run has ended, every source entry has its RESULT line; a
\* source file is skipped only with equal roots and after it was recorded as
\* a match.
C6_NoSuppressionAcrossRoots ==
    /\ (~SameRoots /\ RunEnded) => (suppressed = <<>> /\ LoggedPaths = SourcePaths)
    /\ \A i \in 1 .. Len(suppressed) : SameRoots /\ RecordedAsMatch(suppressed[i])

\* What remains of C6 whatever the run meets: with different roots nothing
\* is suppressed and every entry the loop has passed has its line; any
\* suppression happens under equal roots, after a match.
C6_SuppressionOnlyUnderEqualRoots ==
    /\ ~SameRoots => (suppressed = <<>> /\ LoggedPaths = SubSeq(SourcePaths, 1, Completed))
    /\ \A i \in 1 .. Len(suppressed) : SameRoots /\ RecordedAsMatch(suppressed[i])

\* ------------------------------------------------------------------------
\* Properties of the counters and of the index (SpecScan and SpecRescan).
\* ------------------------------------------------------------------------
\* C11: while scan() runs its two counters never decrease and
\* actual_counter <= checked_counter; when scan() has ended checked_counter
\* is the number of files the walk yielded and get_count() is the number of
\* files the index holds.
C11_CountersCountTheScan ==
    /\ [][scan_pc = "walking" =>
              /\ checked_counter' >= checked_counter
              /\ actual_counter' >= actual_counter]_vars
    /\ [](/\ actual_counter <= checked_counter
          /\ scan_pc = "done" =>
                 /\ checked_counter = Len(walked)
                 /\ get_count(scan_obj) = Cardinality(IndexPaths(scan_obj)))

\* Number of places of a target index where a path is recorded.
Occurrences(items, path) ==
    Cardinality({ik \in (1 .. Len(items)) \X (1 .. MaxScans * Cardinality(MatchPaths)) :
                     /\ ik[2] <= Len(items[ik[1]].value)
                     /\ items[ik[1]].value[ik[2]][1] = path})

\* C12: after a scan no two entries of a source index have the same path,
\* and a path of a target index is recorded once, in the bucket of its size.
C12_EachAcceptedFileOnce ==
    scan_pc = "done" =>
        IF scan_obj.type_is_source
        THEN \A i, j \in 1 .. Len(scan_obj.items) :
                 scan_obj.items[i].key = scan_obj.items[j].key => i = j
        ELSE \A path \in IndexPaths(scan_obj) : Occurrences(scan_obj.items, path) = 1

\* C12 for the first scan() of an object.
C12_EachAcceptedFileOnceFirstScan == scans <= 1 => C12_EachAcceptedFileOnce

\* C13: the step that accepts a file stores it by the object's mode. In
\* source mode items[path] becomes (name, size), the other entries stay and
\* every key is a walked path. In target mode (path, size) is appended to
\* the bucket items[size], which is created if there was none, the other
\* buckets stay, and every entry of a bucket has the bucket's size.
C13_StoredByMode ==
    [][actual_counter' = actual_counter + 1 =>
          LET path == walked'[Len(walked')]
              size == getsize_calls'[Len(getsize_calls')].stat.size
              old == scan_obj.items
              new == scan_obj'.items
          IN  IF scan_obj.type_is_source
              THEN /\ DictHas(new, path)
                   /\ DictGet(new, path) = <<FileName(path), size>>
                   /\ \A i \in 1 .. Len(new) :
                          \E k \in 1 .. Len(walked') : new[i].key = walked'[k]
                   /\ \A i \in 1 .. Len(old) :
                          old[i].key # path => DictGet(new, old[i].key) = old[i].value
              ELSE /\ DictHas(new, size)
                   /\ DictGet(new, size) =
                          Append(IF DictHas(old, size) THEN DictGet(old, size) ELSE <<>>,
                                 <<path, size>>)
                   /\ \A i \in 1 .. Len(old) :
                          old[i].key # size => DictGet(new, old[i].key) = old[i].value
                   /\ \A i \in 1 .. Len(new) : \A k \in 1 .. Len(new[i].value) :
                          new[i].value[k][2] = new[i].key]_vars

\* C13's case: a target index with a bucket of two files, the second
\* appended to the bucket the first created.
C13_Witness ==
    /\ ~scan_obj.type_is_source
    /\ scan_pc = "walking"
    /\ \E i \in 1 .. Len(scan_obj.items) : Len(scan_obj.items[i].value) = 2

\* The entries of the bucket of one size, as a set.
BucketSet(obj, size) ==
    IF DictHas(obj.items, size)
    THEN LET bucket == DictGet(obj.items, size)
         IN  {bucket[k] : k \in 1 .. Len(bucket)}
    ELSE {}

Sizes == {FileSize(c) : c \in {<<>>} \cup MatchContents}

\* Two indices of one mode agree: same count and, for a target index, the
\* same set of entries in the bucket of every size; for a source index the
\* same set of items.
SameIndex(a, b) ==
    /\ get_count(a) = get_count(b)
    /\ IF a.type_is_source
       THEN {a.items[i] : i \in 1 .. Len(a.items)} = {b.items[i] : i \in 1 .. Len(b.items)}
       ELSE \A size \in Sizes : BucketSet(a, size) = BucketSet(b, size)

\* C14: a scan() of a tree gives the same count and the same bucket sets
\* whatever the order of the walk, and a scan() that follows another on an
\* unchanged tree leaves the count and every bucket set as they were.
C14_RescanGivesSameIndex ==
    [][scans' = scans + 1 =>
          /\ \A order \in Listings : SameIndex(scan_obj', scan(scan_obj, fs, order))
          /\ (scans >= 1 /\ changes = 0) => SameIndex(scan_obj', scan_obj)]_vars

\* C14's case: a target index with two files in one bucket, scanned twice
\* on an unchanged tree.
C14_Witness ==
    /\ scans = 2
    /\ changes = 0
    /\ ~scan_obj.type_is_source
    /\ get_count(scan_obj) = 2
    /\ \E size \in Sizes : Cardinality(BucketSet(scan_obj, size)) = 2

\* ------------------------------------------------------------------------
\* Properties of error handling.
\* ------------------------------------------------------------------------
SizeFailed(j) == getsize_calls[j].stat.error # "none"

\* C15: a file whose size cannot be read is left out of the index, is
\* counted in checked_counter and not in actual_counter, and scan() goes on
\* with the files that follow.
C15_SizeErrorSkipsTheFile ==
    \A j \in 1 .. Len(getsize_calls) :
        SizeFailed(j) =>
            /\ getsize_calls[j].path \notin IndexPaths(scan_obj)
            /\ checked_counter = Len(walked)
            /\ actual_counter = Cardinality(IndexPaths(scan_obj))
            /\ scan_pc # "raised"

\* C15 for the one error scan() catches.
C15_NotFoundSkipsTheFile ==
    \A j \in 1 .. Len(getsize_calls) :
        getsize_calls[j].stat = StatNotFound =>
            /\ getsize_calls[j].path \notin IndexPaths(scan_obj)
            /\ checked_counter = Len(walked)
            /\ actual_counter = Cardinality(IndexPaths(scan_obj))

InSeqOf(seq, x) == \E i \in 1 .. Len(seq) : seq[i] = x

\* C16: every file whose size could not be read has a line in the errors
\* log that names it.
C16_SizeErrorsAreLogged ==
    \A j \in 1 .. Len(getsize_calls) :
        SizeFailed(j) => InSeqOf(errors_log, getsize_calls[j].path)

\* C17: a path that is missing or a directory when it is compared never
\* ends the run; it is named in the errors log and the run goes on.
C17_MatchErrorsDoNotAbort ==
    /\ match_pc # "exited"
    /\ \A i \in 1 .. Len(exit_errors) : InSeqOf(errors_log, exit_errors[i])

\* The argument of compare_two_files that is not a regular file.
NotRegular(f) == f.kind \in {"missing", "dir"}

\* C18: when file_a or file_b is missing or a directory, compare_two_files
\* displays an error naming such an argument and exits; it returns nothing
\* and hashes nothing.
C18_BadPathAborts ==
    (cmp_pc # "verify" /\ (NotRegular(file_a) \/ NotRegular(file_b))) =>
        /\ cmp_pc = "exited"
        /\ cmp_result = "none"
        /\ hash_calls = <<>>
        /\ Len(cmp_errors) = 1
        /\ cmp_errors[1] = "a" => NotRegular(file_a)
        /\ cmp_errors[1] = "b" => NotRegular(file_b)

\* C18's case: file_a is a regular file, file_b is a directory and the call
\* has ended.
C18_Witness ==
    /\ file_a.kind = "file"
    /\ file_b.kind = "dir"
    /\ cmp_pc = "exited"
    /\ cmp_errors = <<"b">>

\* C19: with single_pass false the partial check comes first; when the two
\* prefix digests differ the call returns False with no full check made,
\* when they are equal the full check follows and its verdict is returned;
\* with single_pass true no partial check is made.
C19_PartialThenFull ==
    /\ (single_pass /\ cmp_pc = "returned") => hash_calls = <<"full">>
    /\ single_pass => ~InSeqOf(hash_calls, "partial")
    /\ (~single_pass /\ hash_calls # <<>>) => hash_calls[1] = "partial"
    /\ (~single_pass /\ cmp_pc = "returned") =>
           IF PrefixDigestsEqual
           THEN /\ hash_calls = <<"partial", "full">>
                /\ cmp_result = (IF FullDigestsEqual THEN "True" ELSE "False")
           ELSE /\ hash_calls = <<"partial">>
                /\ cmp_result = "False"

\* C19's case: two files whose prefix digests differ, compared on the
\* two-pass path.
C19_Witness ==
    /\ ~single_pass
    /\ cmp_pc = "returned"
    /\ ~PrefixDigestsEqual
    /\ hash_calls = <<"partial">>

\* The sub-directory setting that applies to an object, by its mode.
SkipSubDirs(obj) ==
    IF obj.type_is_source THEN settings.skip_source ELSE settings.skip_target_sub_dirs

DirsToSkip(obj) ==
    IF obj.type_is_source THEN settings.source_dirs_to_skip ELSE settings.target_dirs_to_skip

\* C20: when sub-directories are to be skipped for a tree, its index holds
\* no file of a directory that is on the tree's list of directories to skip.
C20_SkippedDirsNotIndexed ==
    SkipSubDirs(scan_obj) =>
        \A path \in IndexPaths(scan_obj) : path[1] \notin DirsToSkip(scan_obj)

\* ------------------------------------------------------------------------
\* Properties of the driver's ScanDirectory(...) calls (checked under
\* SpecBuild).
\* ------------------------------------------------------------------------
\* The call bound every filter flag of the settings to the scanner parameter
\* of the same meaning.
FlagsMatch(obj) ==
    /\ obj.self.resources_obj = ResourcesObj
    /\ obj.self.skip_hidden = build_settings.skip_hidden
    /\ obj.self.skip_dsstore = build_settings.skip_dsstore
    /\ obj.self.limit_to_patterns = build_settings.limit_to_patterns
    /\ obj.self.patterns = build_settings.pattern_list
    /\ obj.self.skip_zero_len = build_settings.skip_zero_len

\* C21: the driver builds the source object in source mode and the target
\* object in target mode, each with every filter flag of the settings bound
\* to the scanner parameter of the same meaning.
C21_IndicesBuiltByMode ==
    /\ source_obj.state # "none" =>
            /\ source_obj.state = "built"
            /\ source_obj.self.type_is_source = "True"
            /\ FlagsMatch(source_obj)
    /\ target_obj.state # "none" =>
            /\ target_obj.state = "built"
            /\ target_obj.self.type_is_source = "False"
            /\ FlagsMatch(target_obj)

\* ------------------------------------------------------------------------
\* Properties of __main__ (checked under SpecMain).
\* ------------------------------------------------------------------------
\* create_duplicates_log has been called.
LogCreationTried == InSeqOf(main_messages, "creating_dup_log")

\* C22: when the duplicates log cannot be created the failure is reported
\* and the run exits with status 1, with nothing written to a log and no
\* ScanDirectory object built or scanned.
C22_LogFailureEndsRun ==
    (LogCreationTried /\ ~log_creatable) =>
        /\ main_pc = "exited"
        /\ exit_status = 1
        /\ InSeqOf(main_errors, "cannot_create_log")
        /\ log_lines = <<>>
        /\ source_obj.state = "none"
        /\ target_obj.state = "none"
        /\ scans = 0

C22_Witness ==
    /\ ~log_creatable
    /\ exit_point = "create_duplicates_log"
    /\ exit_status = 1

\* verify_compare has run with compare_two_files set.
CompareModeDone ==
    /\ main_pc \notin {"start", "verify_preset", "verify_compare"}
    /\ exit_point # "verify_preset"
    /\ opts.compare_two_files = "True"

BothRegular == argv_rest[1].kind = "file" /\ argv_rest[2].kind = "file"

\* C25: in two-file comparison mode the run ends in verify_compare: with
\* status 1 and an error when the number of arguments is wrong or a path is
\* missing or a directory, with status 0 and the comparator's verdict
\* displayed when both paths are regular files.
C25_CompareModeExits ==
    CompareModeDone =>
        /\ main_pc = "exited"
        /\ exit_point = "verify_compare"
        /\ log_lines = <<>>
        /\ IF Argc(argv_rest) # 3
           THEN exit_status = 1 /\ main_errors = <<"incorrect_num_comp_args">> /\ main_messages = <<>>
           ELSE IF BothRegular
           THEN /\ exit_status = 0
                /\ main_errors = <<>>
                /\ main_messages = <<IF compare_two_files(argv_rest[1], argv_rest[2], FALSE).value THEN "files_match" ELSE "files_do_not_match">>
           ELSE /\ exit_status = 1
                /\ main_errors = <<CompareError(argv_rest[1], argv_rest[2])>>
                /\ main_messages = <<>>

C25_Witness ==
    /\ CompareModeDone
    /\ Argc(argv_rest) = 3
    /\ BothRegular
    /\ main_messages = <<"files_do_not_match">>
    /\ exit_status = 0

\* C30: every boolean option given on the command line has a value other
\* than the one it has when the flag is omitted.
C30_FlagChangesOption ==
    main_pc # "start" =>
        \A o \in argv_flags : opts[o] # OPTIONS_SETTINGS[o].default

\* ------------------------------------------------------------------------
\* Properties of Debug.debug (checked under SpecDebug).
\* ------------------------------------------------------------------------
\* The calls made so far, in order.
CallsMade == [i \in 1 .. dbg_calls |-> i]

\* C23: with write_to_file and max_count = N the debug file never holds
\* more than N lines, while every call made with do_debug true has written
\* its line to stderr and to stdout when those are enabled.
C23_FileLinesBounded ==
    /\ (debug_obj.write_to_file /\ ~debug_obj.max_count.is_none) => Len(dbg_file) <= debug_obj.max_count.value
    /\ (debug_obj.do_debug /\ debug_obj.write_to_stderr) => dbg_stderr = CallsMade
    /\ (debug_obj.do_debug /\ debug_obj.write_to_stdout) => dbg_stdout = CallsMade

C23_Witness ==
    /\ debug_obj.do_debug /\ debug_obj.write_to_file /\ debug_obj.write_to_stderr
    /\ debug_obj.max_count = Limit(1)
    /\ Len(dbg_file) = 1
    /\ Len(dbg_stderr) = 3

\* C24: the process has ended only if exit_on_max_count is true, max_count
\* is a number and the count has reached it; an object with do_debug false
\* keeps its count at zero and has written nothing, whatever was called.
C24_ExitOnlyOnMaxCount ==
    /\ dbg_pc = "exited" =>
            /\ debug_obj.do_debug
            /\ debug_obj.exit_on_max_count
            /\ ~debug_obj.max_count.is_none
            /\ debug_obj.count >= debug_obj.max_count.value
    /\ ~debug_obj.do_debug =>
            /\ debug_obj.count = 0
            /\ dbg_file = <<>> /\ dbg_stderr = <<>> /\ dbg_stdout = <<>>

C24_Witness ==
    /\ dbg_pc = "exited"
    /\ debug_obj.max_count = Limit(2)
    /\ debug_obj.count = 2

\* ------------------------------------------------------------------------
\* Properties of get_count over repeated scans (checked under SpecRescan).
\* ------------------------------------------------------------------------
RECURSIVE BucketLengths(_)
BucketLengths(items) ==
    IF items = <<>> THEN 0 ELSE Len(items[1].value) + BucketLengths(Tail(items))

\* Number of file entries an index holds: its keys in source mode, the
\* entries of all its buckets in target mode.
NumEntries(obj) ==
    IF obj.type_is_source THEN Len(obj.items) ELSE BucketLengths(obj.items)

\* C26: after every scan() get_count() is the number of entries the index
\* holds, and a scan() that follows another on an unchanged tree leaves the
\* index and the count as they were.
C26_CountIsNumberOfEntries ==
    /\ [](scan_pc = "done" => get_count(scan_obj) = NumEntries(scan_obj))
    /\ [][(scan_pc = "done" /\ scans' = scans + 1 /\ changes = 0) =>
              /\ scan_obj'.items = scan_obj.items
              /\ get_count(scan_obj') = get_count(scan_obj)]_vars

\* ------------------------------------------------------------------------
\* Properties of a run of do_compare on one tree (checked under Spec).
\* ------------------------------------------------------------------------
\* Number of places of the log where a path appears: as the source path of
\* a RESULT line or as an entry of a line's match list.
Appearances(path) ==
    Cardinality({i \in 1 .. Len(results_log) : results_log[i].path = path})
    + Cardinality({ik \in (1 .. Len(results_log)) \X (1 .. Cardinality(MatchPaths)) :
                       /\ ik[2] <= Len(results_log[ik[1]].matches)
                       /\ results_log[ik[1]].matches[ik[2]][1] = path})

\* C27: the roots are equal, the tree did not change and the run went to its
\* end: every accepted file appears exactly once in the log, as the source
\* path of one line or as one entry of one line's match list.
C27_EachFileAppearsOnce ==
    (match_pc = "done" /\ changes = 0 /\ SameRoots) =>
        \A i \in 1 .. Len(SourcePaths) : Appearances(SourcePaths[i]) = 1

\* C27 when the option directories are equal too.
C27_EachFileAppearsOnceWhenOptionsAgree ==
    (options.sourceDir = options.targetDir) => C27_EachFileAppearsOnce

\* ------------------------------------------------------------------------
\* Properties of Settings.run_wizard (checked under SpecWizard).
\* ------------------------------------------------------------------------
\* C28: the step numbers shown are 1, 2, 3, ... without gap or repetition,
\* none exceeds step_count, and when the wizard has gone through its last
\* step the number shown last is step_count.
C28_StepsCountUp ==
    /\ \A i \in 1 .. Len(steps_shown) : steps_shown[i] = i
    /\ Len(steps_shown) <= StepCount(wiz_advanced)
    /\ (wiz_pc = "done" \/ wiz_pc = "raised") => Len(steps_shown) = StepCount(wiz_advanced)

C28_Witness ==
    /\ wiz_advanced
    /\ wiz_pc = "done"
    /\ ~wiz_settings.do_debug
    /\ steps_shown[Len(steps_shown)] = 17

\* ------------------------------------------------------------------------
\* Properties of UI.get_input (checked under SpecUI).
\* ------------------------------------------------------------------------
\* C29: get_input ends only by returning or by the user's quitting; when it
\* has returned values holds one response, which passes validation; while
\* it prompts and when the user has quit nothing is stored.
C29_OnlyValidResponseStored ==
    /\ ui_pc # "raised"
    /\ ui_pc = "returned" =>
           /\ Len(ui_values) = 1
           /\ validate_response(ui_class, ui_values[1], <<"y">>) = "valid"
    /\ ui_pc \in {"prompt", "exited"} => ui_values = <<>>

====
